---------------------------- MODULE Spec2Model ----------------------------
(***************************************************************************)
(* Offline write queue (pendingQueue.ts): the durable queue store kept in  *)
(* localStorage with an in-memory fallback, the enqueue lock chain and the *)
(* replay engine processPendingOps.                                        *)
(*                                                                         *)
(* Conventions.  An optional JavaScript value (undefined, or a value whose *)
(* typeof test fails) is a sequence of length 0; a present value v is the  *)
(* one-element sequence <<v>>.  An in-memory PendingItem is a record       *)
(*   [id, kind, payload, createdAt, attempts, lastError, lastAttemptAt,    *)
(*    failures]                                                            *)
(* whose last three fields are optional.  The JSON text stored under a key *)
(* is a document [type, entries]; an entry of an array document is the     *)
(* object JSON.stringify wrote: every key is optional there, because the   *)
(* reader tests each one.                                                  *)
(***************************************************************************)
EXTENDS Integers, Sequences, FiniteSets, TLC

(***************************************************************************)
(* Program constants.                                                      *)
(***************************************************************************)
MAX_FAILURE_LOG == 5
MAX_QUEUE_SIZE == 100
DefaultMaxAttempts == 3
DefaultBackoffMs == 400
\* ratios and random draws are counted in hundredths: 25 is 0.25
DefaultJitterRatio == 25
\* the largest delay computeBackoffDelay returns
MAX_DELAY == 5000

(***************************************************************************)
(* Bounds of the model.                                                    *)
(***************************************************************************)
MaxCalls == 2         \* enqueue calls issued in one behaviour of Spec
MaxLockCalls == 3     \* enqueue calls issued in one behaviour of SpecLock
MaxStoreCalls == 3    \* enqueue and clear calls issued in one behaviour of SpecFallback
MaxTrimCalls == 2     \* enqueue calls issued in one behaviour of SpecTrim
MaxOversize == 2      \* SpecTrim starts at most this far below or above MAX_QUEUE_SIZE
MaxClock == 2         \* values Date.now() takes in SpecReplay and SpecReject: 1..MaxClock
MaxRejectAttempts == 6 \* largest maxAttempts option of a run of SpecReject
MaxDuringCalls == 2   \* enqueue calls issued in one behaviour of SpecDuring
MaxClearCalls == 3    \* enqueue and clear calls issued in one behaviour of SpecClear
MaxAbsentCalls == 3   \* enqueue and clear calls issued in one behaviour of SpecAbsent
MaxAbsentStarts == 1  \* processPendingOps calls in one behaviour of SpecAbsent
MaxLogAttempts == 10  \* largest maxAttempts of a run in SpecLog (the stored item has 7 attempts)
MaxFrameCalls == 2    \* enqueue calls issued in one behaviour of SpecFrame
MaxFrameBelow == 1    \* SpecFrame starts empty or at most this far below MAX_QUEUE_SIZE
MaxAttemptIndex == 10 \* largest attemptIndex passed to computeBackoffDelay in SpecCompute
MaxReleaseCalls == 3  \* enqueue calls issued in one behaviour of SpecRelease
MaxEntryCalls == 2    \* enqueue and clear calls issued in one behaviour of SpecEntry
MaxSuspendStarts == 2 \* processPendingOps calls in one behaviour of SpecSuspend
MaxOwnerCalls == 2    \* enqueue and clear calls issued in one behaviour of SpecOwners
MaxBackoffStarts == 2 \* processPendingOps calls in one behaviour of SpecBackoff
MaxDocLen == 2        \* entries of a stored document SpecRead starts from (small documents)
MaxMigrations == 2    \* failed legacy migrations followed in one behaviour (SpecRead, SpecOwners)
MaxLegacyOver == 1    \* SpecRead starts with up to MAX_QUEUE_SIZE + this many legacy entries

None == << >>
Some(v) == << v >>
IsSome(o) == Len(o) > 0
Get(o) == o[1]

(***************************************************************************)
(* Owners and storage keys.  NullUser is the userId null/undefined.        *)
(***************************************************************************)
NullUser == "<null>"
UserIds == {NullUser, "u1"}

STORAGE_VERSION == "v2"
\* owners whose keys meet the keys of UserIds: a user whose id is the anonymous marker's
\* text, and a user whose id begins with the version segment
OwnerIds == UserIds \cup {"anon", "v2_u1"}
\* `${userId ?? "anon"}`, as the segments "_" separates
OwnerSegments(userId) ==
    IF userId = NullUser THEN << "anon" >>
    ELSE IF userId = "v2_u1" THEN << "v2", "u1" >>
    ELSE << userId >>
\* `pending_ops_${STORAGE_VERSION}_${userId ?? "anon"}`, as the segments "_" separates
buildKey(userId) == << "pending_ops", STORAGE_VERSION >> \o OwnerSegments(userId)
\* `pending_ops_${userId ?? "anon"}`: the unversioned key of the v1 format
legacyKey(userId) == << "pending_ops" >> \o OwnerSegments(userId)
Keys == {buildKey(u) : u \in OwnerIds} \cup {legacyKey(u) : u \in OwnerIds}

(***************************************************************************)
(* Values thrown by localStorage.setItem.  text holds the words among      *)
(* quota/exceed/storage/full that the lower-cased message contains.        *)
(***************************************************************************)
NoFault == [obj |-> TRUE, name |-> "", code |-> None, text |-> {}]
QuotaExceededError ==
    [obj |-> TRUE, name |-> "QuotaExceededError", code |-> Some(22), text |-> {"quota", "exceed"}]
StorageFullMessage ==
    [obj |-> TRUE, name |-> "Error", code |-> None, text |-> {"storage", "full"}]
SecurityError ==
    [obj |-> TRUE, name |-> "SecurityError", code |-> Some(18), text |-> {"insecure"}]
PlainQuotaMessage ==
    [obj |-> TRUE, name |-> "Error", code |-> None, text |-> {"quota"}]
SetItemErrors == {QuotaExceededError, StorageFullMessage, SecurityError, PlainQuotaMessage}

\* What the storage calls of one readPendingOps call do.  A value of SetItemErrors, or
\* NoFault, says what setItem throws while removeItem returns; RemoveItemThrows(fault)
\* says that removeItem throws as well.
RemoveItemThrows(fault) == [setItem |-> fault, removeItem |-> TRUE]
SetItemFault(outcome) == IF "removeItem" \in DOMAIN outcome THEN outcome.setItem ELSE outcome
RemoveItemFault(outcome) == "removeItem" \in DOMAIN outcome

\* the words of the lower-cased error name
NameWords(name) ==
    CASE name = "QuotaExceededError" -> {"quota", "exceed"}
      [] name = "NS_ERROR_DOM_QUOTA_REACHED" -> {"quota"}
      [] OTHER -> {}

isQuotaExceeded(error) ==
    IF ~error.obj THEN FALSE
    ELSE \/ error.name = "QuotaExceededError"
         \/ error.name = "NS_ERROR_DOM_QUOTA_REACHED"
         \/ error.code = Some(22)
         \/ error.code = Some(1014)

isStorageFullError(error) ==
    IF isQuotaExceeded(error) THEN TRUE
    ELSE LET combined == NameWords(error.name) \cup error.text IN
         \/ ("quota" \in combined /\ "exceed" \in combined)
         \/ ("storage" \in combined
               /\ ("full" \in combined \/ "quota" \in combined \/ "exceed" \in combined))

(***************************************************************************)
(* JSON documents.                                                         *)
(***************************************************************************)
AbsentDoc == [type |-> "absent", entries |-> << >>]
ArrayDoc(entries) == [type |-> "array", entries |-> entries]

StringifyFailure(f) ==
    [at |-> Some(f.at), message |-> Some(f.message), requestId |-> f.requestId]

StringifyItem(item) ==
    [id |-> Some(item.id),
     kind |-> Some(item.kind),
     payload |-> item.payload,
     createdAt |-> Some(item.createdAt),
     attempts |-> Some(item.attempts),
     lastError |-> item.lastError,
     lastAttemptAt |-> item.lastAttemptAt,
     failures |-> IF IsSome(item.failures)
                  THEN Some([i \in 1..Len(Get(item.failures)) |->
                               StringifyFailure(Get(item.failures)[i])])
                  ELSE None]

\* JSON.stringify(trimmed)
JSONStringify(items) == ArrayDoc([i \in 1..Len(items) |-> StringifyItem(items[i])])

\* items.slice(-n)
SliceLast(s, n) == IF Len(s) <= n THEN s ELSE SubSeq(s, Len(s) - n + 1, Len(s))

\* if (fallbackMessage && typeof fallbackAt === "number"): an empty message is falsy
FallbackFailure(fallbackMessage, fallbackAt) ==
    IF IsSome(fallbackMessage) /\ Get(fallbackMessage) # "" /\ IsSome(fallbackAt)
    THEN Some(<< [at |-> Get(fallbackAt), message |-> Get(fallbackMessage), requestId |-> None] >>)
    ELSE None

\* normalizeFailures(item.failures, lastError, lastAttemptAt) of readPendingOps
normalizeFailures(stored, fallbackMessage, fallbackAt) ==
    IF ~IsSome(stored) THEN FallbackFailure(fallbackMessage, fallbackAt)
    ELSE LET valid == SelectSeq(Get(stored), LAMBDA f : IsSome(f.at) /\ IsSome(f.message))
             entries == [i \in 1..Len(valid) |->
                           [at |-> Get(valid[i].at), message |-> Get(valid[i].message),
                            requestId |-> valid[i].requestId]]
         IN IF Len(entries) > 0 THEN Some(SliceLast(entries, MAX_FAILURE_LOG))
            ELSE FallbackFailure(fallbackMessage, fallbackAt)

\* the entries of a stored array that survive the filter of readPendingOps
IsItemEntry(e) == IsSome(e.id) /\ IsSome(e.kind)

\* the .map() of readPendingOps on one surviving entry; nowT is Date.now()
hydrate(e, nowT) ==
    [id |-> Get(e.id),
     kind |-> Get(e.kind),
     payload |-> e.payload,
     createdAt |-> IF IsSome(e.createdAt) THEN Get(e.createdAt) ELSE nowT,
     attempts |-> IF IsSome(e.attempts) THEN Get(e.attempts) ELSE 0,
     lastError |-> e.lastError,
     lastAttemptAt |-> e.lastAttemptAt,
     failures |-> normalizeFailures(e.failures, e.lastError, e.lastAttemptAt)]

\* faulty variant: one malformed entry makes the whole array unreadable
hydrateAllOrNothing(entries, nowT) ==
    IF \A i \in 1..Len(entries) : IsItemEntry(entries[i])
    THEN [i \in 1..Len(entries) |-> hydrate(entries[i], nowT)]
    ELSE << >>

hydrateAll(entries, nowT) ==
    LET kept == SelectSeq(entries, IsItemEntry)
    IN [i \in 1..Len(kept) |-> hydrate(kept[i], nowT)]

(***************************************************************************)
(* trimQueue / notifyQueueTrim.  The event log of a handler records the    *)
(* publishSyncEvent calls; a "trimmed" entry is an observation of the      *)
(* model (not a program event) that records each slice that dropped items. *)
(***************************************************************************)
\* faulty variant: the slice keeps the oldest items
trimQueueKeepsOldest(items) ==
    IF Len(items) <= MAX_QUEUE_SIZE THEN [items |-> items, dropped |-> 0]
    ELSE [items |-> SubSeq(items, 1, MAX_QUEUE_SIZE), dropped |-> Len(items) - MAX_QUEUE_SIZE]

trimQueue(items) ==
    IF Len(items) <= MAX_QUEUE_SIZE THEN [items |-> items, dropped |-> 0]
    ELSE LET dropped == Len(items) - MAX_QUEUE_SIZE
         IN [items |-> SubSeq(items, dropped + 1, Len(items)), dropped |-> dropped]

Publish(requestId, n) ==
    [type |-> "publish", requestId |-> requestId, n |-> n, item |-> << >>, message |-> "",
     meta |-> << >>]
ObservedTrim(n) ==
    [type |-> "trimmed", requestId |-> "", n |-> n, item |-> << >>, message |-> "",
     meta |-> << >>]

\* localStorage.setItem(key, JSON.stringify(trimmed)) is called with the list `items` and
\* returns (NoFault) or throws `fault`
SetItemCalled(items, fault) ==
    [type |-> "setItem", requestId |-> "", n |-> Len(items), item |-> items, message |-> "",
     meta |-> << fault >>]

ObserveTrim(ev, dropped) == IF dropped > 0 THEN Append(ev, ObservedTrim(dropped)) ELSE ev

notifyQueueTrim(ev, dropped) ==
    IF dropped <= 0 THEN ev ELSE Append(ev, Publish("queue-trim", dropped))


(***************************************************************************)
(* State.                                                                  *)
(***************************************************************************)
VARIABLES
    localStorageDefined,  \* typeof localStorage !== "undefined"
    localStorage,         \* key -> stored JSON document
    memoryFallbackQueue,  \* key -> [present, items, ref]
    writeLock,            \* the promise chain of withLock: calls waiting for their turn
    calls,                \* every enqueue call issued so far, in issue order, with its outcome
    nextId,               \* source of genId()
    clock,                \* Date.now()
    runs,                 \* run -> a processPendingOps invocation
    events,               \* what the last handler published and called back, in order
    stats,                \* per item id: counts of execute / callback invocations
    setItemLog,           \* outcomes of the localStorage.setItem calls so far
    starts                \* number of processPendingOps calls so far

vars == << localStorageDefined, localStorage, memoryFallbackQueue, writeLock, calls,
           nextId, clock, runs, events, stats, setItemLog, starts >>

(***************************************************************************)
(* The store as a value threaded through one synchronous handler:          *)
(*   ls, mem: localStorage and memoryFallbackQueue;  ev: event log;        *)
(*   ids: next id of genId;  log: setItem outcomes seen.                   *)
(* mem[key].ref names the array object the Map holds: 0 an array nobody    *)
(* else holds, r > 0 the working array `queue` of run r, LocalRef the      *)
(* array the running handler still holds and mutates.                      *)
(***************************************************************************)
NoRef == 0
LocalRef == -1
NoEntry == [present |-> FALSE, items |-> << >>, ref |-> NoRef]

Store == [ls |-> localStorage, mem |-> memoryFallbackQueue, ev |-> << >>,
          ids |-> nextId, log |-> setItemLog]

SetItemOutcome(fault) ==
    IF fault = NoFault THEN "ok" ELSE IF isStorageFullError(fault) THEN "quota" ELSE "error"
\* what setItemLog keeps of a setItem call: "ok", or the name of the value it threw
Thrown(fault) == IF fault = NoFault THEN "ok" ELSE fault.name

\* faulty variant: a full storage is treated like any other failure
persistWithoutFallback(S, items, userId, fault, ref) ==
    IF ~localStorageDefined THEN [S |-> S, ret |-> "false", cause |-> NoFault]
    ELSE
    LET t == trimQueue(items)
        ev1 == notifyQueueTrim(ObserveTrim(S.ev, t.dropped), t.dropped)
        key == buildKey(userId)
        S1 == [S EXCEPT !.ev = ev1, !.log = @ \cup {Thrown(fault)}]
    IN  IF fault = NoFault
        THEN [S |-> [S1 EXCEPT !.ls[key] = JSONStringify(t.items), !.mem[key] = NoEntry],
              ret |-> "true", cause |-> NoFault]
        ELSE [S |-> S1, ret |-> "throw", cause |-> fault]

\* faulty variant: every failure of setItem is absorbed by the fallback
persistAlwaysFallsBack(S, items, userId, fault, ref) ==
    IF ~localStorageDefined THEN [S |-> S, ret |-> "false", cause |-> NoFault]
    ELSE
    LET t == trimQueue(items)
        ev1 == notifyQueueTrim(ObserveTrim(S.ev, t.dropped), t.dropped)
        key == buildKey(userId)
        S1 == [S EXCEPT !.ev = ev1, !.log = @ \cup {Thrown(fault)}]
    IN  IF fault = NoFault
        THEN [S |-> [S1 EXCEPT !.ls[key] = JSONStringify(t.items), !.mem[key] = NoEntry],
              ret |-> "true", cause |-> NoFault]
        ELSE [S |-> [S1 EXCEPT !.mem[key] = [present |-> TRUE, items |-> t.items,
                                              ref |-> IF t.dropped = 0 THEN ref ELSE NoRef],
                               !.ev = Append(@, Publish("queue-quota", 0))],
              ret |-> "false", cause |-> NoFault]

\* faulty variant: a missing localStorage is reported as a failed write
persistRequiresStorage(S, items, userId, fault, ref) ==
    IF ~localStorageDefined THEN [S |-> S, ret |-> "throw", cause |-> SecurityError]
    ELSE
    LET t == trimQueue(items)
        ev1 == notifyQueueTrim(ObserveTrim(S.ev, t.dropped), t.dropped)
        key == buildKey(userId)
        S1 == [S EXCEPT !.ev = ev1, !.log = @ \cup {Thrown(fault)}]
    IN  IF fault = NoFault
        THEN [S |-> [S1 EXCEPT !.ls[key] = JSONStringify(t.items), !.mem[key] = NoEntry],
              ret |-> "true", cause |-> NoFault]
        ELSE IF isStorageFullError(fault)
        THEN [S |-> [S1 EXCEPT !.mem[key] = [present |-> TRUE, items |-> t.items,
                                              ref |-> IF t.dropped = 0 THEN ref ELSE NoRef],
                               !.ev = Append(@, Publish("queue-quota", 0))],
              ret |-> "false", cause |-> NoFault]
        ELSE [S |-> S1, ret |-> "throw", cause |-> fault]

\* faulty variant: a successful write leaves the fallback entry in place
persistKeepsFallback(S, items, userId, fault, ref) ==
    IF ~localStorageDefined THEN [S |-> S, ret |-> "false", cause |-> NoFault]
    ELSE
    LET t == trimQueue(items)
        ev1 == Append(notifyQueueTrim(ObserveTrim(S.ev, t.dropped), t.dropped),
                      SetItemCalled(t.items, fault))
        key == buildKey(userId)
        S1 == [S EXCEPT !.ev = ev1, !.log = @ \cup {Thrown(fault)}]
    IN  IF fault = NoFault
        THEN [S |-> [S1 EXCEPT !.ls[key] = JSONStringify(t.items)],
              ret |-> "true", cause |-> NoFault]
        ELSE IF isStorageFullError(fault)
        THEN [S |-> [S1 EXCEPT !.mem[key] = [present |-> TRUE, items |-> t.items,
                                              ref |-> IF t.dropped = 0 THEN ref ELSE NoRef],
                               !.ev = Append(@, Publish("queue-quota", 0))],
              ret |-> "false", cause |-> NoFault]
        ELSE [S |-> S1, ret |-> "throw", cause |-> fault]

\* persist(items, userId): ret is true/false, or "throw" with the PersistError's cause
persist(S, items, userId, fault, ref) ==
    IF ~localStorageDefined THEN [S |-> S, ret |-> "false", cause |-> NoFault]
    ELSE
    LET key == buildKey(userId)
        \* localStorage.setItem has returned or thrown `fault`
        SetItemDone(t, S1) ==
            IF fault = NoFault
            THEN [S |-> [S1 EXCEPT !.ls[key] = JSONStringify(t.items), !.mem[key] = NoEntry],
                  ret |-> "true", cause |-> NoFault]
            ELSE IF isStorageFullError(fault)
            THEN [S |-> [S1 EXCEPT !.mem[key] = [present |-> TRUE, items |-> t.items,
                                                  ref |-> IF t.dropped = 0 THEN ref ELSE NoRef],
                                   !.ev = Append(@, Publish("queue-quota", 0))],
                  ret |-> "false", cause |-> NoFault]
            ELSE [S |-> S1, ret |-> "throw", cause |-> fault]
        \* const { items: trimmed, dropped } = trimQueue(items); notifyQueueTrim(dropped)
        Trimmed(t) ==
            SetItemDone(t, [S EXCEPT
                !.ev = Append(notifyQueueTrim(ObserveTrim(S.ev, t.dropped), t.dropped),
                              SetItemCalled(t.items, fault)),
                !.log = @ \cup {Thrown(fault)}])
    IN  Trimmed(trimQueue(items))

\* clearPendingOps(userId); removeThrows: localStorage.removeItem throws
clearStore(S, userId, removeThrows) ==
    LET key == buildKey(userId)
        S1 == [S EXCEPT !.mem[key] = NoEntry]
    IN  IF ~localStorageDefined \/ removeThrows THEN S1
        ELSE [S1 EXCEPT !.ls[key] = AbsentDoc]

(***************************************************************************)
(* reviveLegacy.  A legacy entry is [kind, payload] with payload optional  *)
(* and its fields optional.                                                *)
(***************************************************************************)
LegacySurvives(p) == IsSome(p.kind) \/ IsSome(p.payload)
LegacyConvertible(p) == IsSome(p.kind) /\ Get(p.kind) \in {"save", "update"}
\* reading p.payload.name of an entry without payload throws a TypeError
LegacyThrows(p) == LegacyConvertible(p) /\ ~IsSome(p.payload)

migrateEntry(p, id, nowT) ==
    LET payload == Get(p.payload) IN
    [id |-> id,
     kind |-> Get(p.kind),
     payload |-> IF Get(p.kind) = "save"
                 THEN [id |-> "", body |-> IF IsSome(payload.body) THEN Get(payload.body) ELSE "Untitled"]
                 ELSE [id |-> IF IsSome(payload.id) THEN Get(payload.id) ELSE "",
                       body |-> IF IsSome(payload.body) THEN Get(payload.body) ELSE ""],
     createdAt |-> nowT,
     attempts |-> 0,
     lastError |-> None,
     lastAttemptAt |-> None,
     failures |-> None]

\* a parsed entry as reviveLegacy reads it: p.kind, p.payload.id and p.payload.name (save)
\* or p.payload.message_content (update).  An item of the current format has its kind, a
\* save payload has its name and an update payload its id, with message_content under
\* payload.update; a stored entry without payload ({"kind": "save"}) has none here either
LegacyView(p) ==
    IF "createdAt" \notin DOMAIN p THEN p
    ELSE IF "payload" \notin DOMAIN p THEN [kind |-> p.kind, payload |-> None]
    ELSE [kind |-> p.kind,
          payload |-> Some([id |-> IF p.kind = Some("update") THEN Some(p.payload.id) ELSE None,
                            body |-> IF p.kind = Some("save") THEN Some(p.payload.body)
                                     ELSE None])]

reviveLegacy(S, userId, fault, ref, nowT) ==
    LET raw == S.ls[legacyKey(userId)]
        read == [i \in 1..Len(raw.entries) |-> LegacyView(raw.entries[i])]
        \* persist(migrated, userId); localStorage.removeItem(legacy key); return migrated.
        \* When persist or removeItem throws the catch block returns a new empty array: the
        \* array persist may have put into the Map is then held by the Map alone
        Stored(w, migrated) ==
            IF w.ret = "throw" THEN [S |-> w.S, items |-> << >>]
            ELSE IF RemoveItemFault(fault)
            THEN [S |-> [w.S EXCEPT !.mem[buildKey(userId)].ref = NoRef], items |-> << >>]
            ELSE [S |-> [w.S EXCEPT !.ls[legacyKey(userId)] = AbsentDoc], items |-> migrated]
        Migrated(S1, migrated) ==
            IF Len(migrated) = 0 THEN [S |-> S1, items |-> migrated]
            ELSE Stored(persist(S1, migrated, userId, SetItemFault(fault), ref), migrated)
        \* the .map() over the filtered entries: genId() is called for each convertible
        \* entry until one throws
        Mapped(parsed, conv) ==
            IF \E i \in 1..Len(parsed) : LegacyThrows(parsed[i])
            THEN [S |-> [S EXCEPT !.ids = @ + Cardinality({j \in 1..Len(parsed) :
                                     LegacyConvertible(parsed[j])
                                     /\ \A k \in 1..(j - 1) : ~LegacyThrows(parsed[k])})],
                  items |-> << >>]
            ELSE Migrated([S EXCEPT !.ids = @ + Len(conv)],
                          [i \in 1..Len(conv) |-> migrateEntry(conv[i], S.ids + i - 1, nowT)])
        Parsed(parsed) == Mapped(parsed, SelectSeq(parsed, LegacyConvertible))
    IN  IF ~localStorageDefined THEN [S |-> S, items |-> << >>]
        ELSE IF raw.type # "array" THEN [S |-> S, items |-> << >>]
        ELSE Parsed(SelectSeq(read, LegacySurvives))

(***************************************************************************)
(* readPendingOps(userId).  ref is the identity the caller gives to the    *)
(* array it receives: the array reviveLegacy returns and the trimmed array *)
(* are passed to persist, which puts them into the fallback Map when       *)
(* setItem hits the quota.  fault is what the storage calls of the read do.*)
(***************************************************************************)
readPendingOps(S, userId, fault, ref, nowT) ==
    LET key == buildKey(userId)
        fallback == S.mem[key]
        raw == S.ls[key]
        \* if (dropped > 0) persist(trimmed, userId); return trimmed
        Persisted(w, t) ==
            IF w.ret = "throw" THEN [S |-> w.S, items |-> << >>]
            ELSE [S |-> w.S, items |-> t.items]
        Trimmed(t) ==
            IF t.dropped > 0
            THEN Persisted(persist([S EXCEPT !.ev = ObserveTrim(@, t.dropped)], t.items,
                                   userId, SetItemFault(fault), ref), t)
            ELSE [S |-> S, items |-> t.items]
    IN  IF fallback.present THEN [S |-> S, items |-> fallback.items]
        ELSE IF ~localStorageDefined THEN [S |-> S, items |-> << >>]
        ELSE IF raw.type = "absent" THEN reviveLegacy(S, userId, fault, ref, nowT)
        ELSE IF raw.type # "array" THEN [S |-> S, items |-> << >>]
        ELSE Trimmed(trimQueue(hydrateAll(raw.entries, nowT)))

\* what a caller of readPendingOps sees in the current state (no clock-dependent defaults
\* arise for items this program wrote)
Peek(userId) == readPendingOps(Store, userId, NoFault, NoRef, clock).items


(***************************************************************************)
(* Inputs.                                                                 *)
(***************************************************************************)
SavePayloads == {[id |-> "s1", body |-> "v1"]}
UpdatePayloads == {[id |-> "s1", body |-> "v1"], [id |-> "s1", body |-> "v2"],
                   [id |-> "s2", body |-> "v1"]}
Faults == {NoFault, QuotaExceededError, SecurityError}

\* values execute() rejects with: an Error, a thrown string, an Error carrying a requestId
NetworkError == [isError |-> TRUE, message |-> "network", requestId |-> None]
ThrownString == [isError |-> FALSE, message |-> "offline", requestId |-> None]
TracedError == [isError |-> TRUE, message |-> "conflict", requestId |-> Some("req-1")]
ExecuteErrors == {NetworkError, ThrownString, TracedError}
\* the PersistError thrown by persist, as seen by a catch block
PersistErrorValue ==
    [isError |-> TRUE, message |-> "Failed to persist offline queue. Storage may be full.",
     requestId |-> None]

(***************************************************************************)
(* Events of a handler, in program order.                                  *)
(***************************************************************************)
Ev(type, item, n) ==
    [type |-> type, requestId |-> "", n |-> n, item |-> item, message |-> "", meta |-> << >>]
AddEv(S, e) == [S EXCEPT !.ev = Append(@, e)]

Count(f, id) == IF id \in DOMAIN f THEN f[id] ELSE 0
Inc(f, id) == [x \in DOMAIN f \cup {id} |-> Count(f, x) + (IF x = id THEN 1 ELSE 0)]

NoStats == [execute |-> << >>, onSuccess |-> << >>, onItemFailure |-> << >>,
            onPermanentFailure |-> << >>]

(***************************************************************************)
(* withLock: the calls wait in a promise chain; the one whose predecessor  *)
(* has released runs next.  writeLock lists the calls that have not yet    *)
(* released the lock, in issue order.                                      *)
(***************************************************************************)
\* faulty variant: the call issued last runs first
lockTurnNewest(chain) == chain[Len(chain)]

lockTurn(chain) == Head(chain)

newItem(id, kind, payload, nowT) ==
    [id |-> id, kind |-> kind, payload |-> payload, createdAt |-> nowT, attempts |-> 0,
     lastError |-> None, lastAttemptAt |-> None, failures |-> Some(<< >>)]

\* the handler's own reference to an array dies with the handler
DropLocalRefs(S) ==
    [S EXCEPT !.mem = [k \in DOMAIN S.mem |->
        IF S.mem[k].ref = LocalRef THEN [S.mem[k] EXCEPT !.ref = NoRef] ELSE S.mem[k]]]

\* a mutation of the array `ref` names, seen through the Map when the Map holds that array
MutateShared(S, userId, ref, newItems) ==
    LET key == buildKey(userId) IN
    IF S.mem[key].present /\ S.mem[key].ref = ref
    THEN [S EXCEPT !.mem[key].items = newItems] ELSE S

Settle(w, op) ==
    IF w.ret = "throw"
    THEN [S |-> DropLocalRefs(w.S), status |-> "rejected", item |-> None, cause |-> w.cause]
    ELSE [S |-> DropLocalRefs(w.S), status |-> "resolved", item |-> Some(op), cause |-> NoFault]

\* the function enqueueSaveOperation runs under the lock
enqueueSaveBody(S, payload, userId, f1, f2, nowT) ==
    LET \* const queue = readPendingOps(userId) has returned r.items
        Push(r) ==
            LET op == newItem(r.S.ids, "save", payload, nowT)
                S1 == [r.S EXCEPT !.ids = @ + 1]
                queue == Append(r.items, op)
                S2 == MutateShared(S1, userId, LocalRef, queue)
            IN  Settle(persist(S2, queue, userId, f2, LocalRef), op)
    IN  Push(readPendingOps(S, userId, f1, LocalRef, nowT))

\* faulty variant: the filter keeps every item
dropUpdatesForKeepsAll(queue, payload) == queue

\* faulty variant: the filter drops the updates of every screen
dropUpdatesForAnyId(queue, payload) ==
    SelectSeq(queue, LAMBDA item : item.kind # "update")

\* queue.filter(...) of enqueueUpdateOperation
dropUpdatesFor(queue, payload) ==
    SelectSeq(queue, LAMBDA item : ~(item.kind = "update" /\ item.payload.id = payload.id))

\* the function enqueueUpdateOperation runs under the lock
enqueueUpdateBody(S, payload, userId, f1, f2, nowT) ==
    LET \* const queue = readPendingOps(userId) has returned r.items
        Push(r) ==
            LET nextQueue0 == dropUpdatesFor(r.items, payload)
                op == newItem(r.S.ids, "update", payload, nowT)
                S1 == [r.S EXCEPT !.ids = @ + 1]
                nextQueue == Append(nextQueue0, op)
            IN  Settle(persist(S1, nextQueue, userId, f2, NoRef), op)
    IN  Push(readPendingOps(S, userId, f1, LocalRef, nowT))

(***************************************************************************)
(* processPendingOps.  A run is suspended at `await options.execute(item)` *)
(* (pc = "executing") or at `await wait(delayMs)` (pc = "waiting"); what   *)
(* lies between two suspensions is one synchronous step.  A context        *)
(* C = [S, run, st] carries the store, the run and the invocation counts.  *)
(***************************************************************************)
Runs == {1, 2}
IdleRun == [pc |-> "idle", userId |-> NullUser, maxAttempts |-> DefaultMaxAttempts,
            backoffMs |-> DefaultBackoffMs, jitterRatio |-> DefaultJitterRatio,
            queue |-> << >>, i |-> 1, aborted |-> FALSE, loaded |-> << >>,
            inflight |-> << >>]

\* faulty variant: the newest item is removed
spliceRemovesLast(queue, i) ==
    IF i <= Len(queue) THEN SubSeq(queue, 1, Len(queue) - 1) ELSE queue

\* queue.splice(i, 1)
splice(queue, i) ==
    IF i <= Len(queue) THEN SubSeq(queue, 1, i - 1) \o SubSeq(queue, i + 1, Len(queue))
    ELSE queue
\* faulty variant: the updated item is moved to the end of the array
assignAtMovesToEnd(queue, i, updated) ==
    IF i <= Len(queue)
    THEN Append(SubSeq(queue, 1, i - 1) \o SubSeq(queue, i + 1, Len(queue)), updated)
    ELSE Append(queue, updated)

\* queue[i] = updated (an index one past the end extends the array)
assignAt(queue, i, updated) ==
    IF i <= Len(queue) THEN [queue EXCEPT ![i] = updated] ELSE Append(queue, updated)

\* faulty variant: the message is read from Error objects only
errorMessageOfErrorsOnly(error) == IF error.isError THEN error.message ELSE ""

\* error instanceof Error ? error.message : String(error)
errorMessage(error) == error.message
\* typeof error?.requestId === "string" ? error.requestId : undefined
errorRequestId(error) == error.requestId

\* faulty variant: the failures log grows with every attempt
failedItemUnbounded(item, error, failureAt) ==
    LET entry == [at |-> failureAt, message |-> errorMessage(error),
                  requestId |-> errorRequestId(error)]
        prior == IF IsSome(item.failures) THEN Get(item.failures) ELSE << >>
    IN  [item EXCEPT !.attempts = item.attempts + 1,
                     !.lastError = Some(errorMessage(error)),
                     !.lastAttemptAt = Some(failureAt),
                     !.failures = Some(Append(prior, entry))]

\* faulty variant: the rebuilt item is stamped anew
failedItemRestamped(item, error, failureAt) ==
    LET entry == [at |-> failureAt, message |-> errorMessage(error),
                  requestId |-> errorRequestId(error)]
        prior == IF IsSome(item.failures) THEN Get(item.failures) ELSE << >>
    IN  [item EXCEPT !.createdAt = failureAt,
                     !.attempts = item.attempts + 1,
                     !.lastError = Some(errorMessage(error)),
                     !.lastAttemptAt = Some(failureAt),
                     !.failures = Some(SliceLast(Append(prior, entry), MAX_FAILURE_LOG))]

\* the item as the catch block rebuilds it
failedItem(item, error, failureAt) ==
    LET entry == [at |-> failureAt, message |-> errorMessage(error),
                  requestId |-> errorRequestId(error)]
        prior == IF IsSome(item.failures) THEN Get(item.failures) ELSE << >>
    IN  [item EXCEPT !.attempts = item.attempts + 1,
                     !.lastError = Some(errorMessage(error)),
                     !.lastAttemptAt = Some(failureAt),
                     !.failures = Some(SliceLast(Append(prior, entry), MAX_FAILURE_LOG))]

\* Math.min, Math.max
Min(a, b) == IF a <= b THEN a ELSE b
Max(a, b) == IF a >= b THEN a ELSE b

\* faulty variant: the jitter is added after the cap and the sum is not capped again
computeBackoffDelayJitterAfterCap(base, attemptIndex, jitterRatio, random) ==
    LET safeBase == Max(base, 0)
        safeRatio == Max(jitterRatio, 0)
        exponential == Min(safeBase * 2 ^ attemptIndex, MAX_DELAY)
        jitter == (exponential * safeRatio * random) \div 10000
    IN  Max(0, exponential + jitter)

\* computeBackoffDelay(base, attemptIndex, jitterRatio) of supabaseRetry, with the value
\* Math.random() returns as an argument: the exponential delay, capped, lengthened by up to
\* jitterRatio of itself, and kept within 0..MAX_DELAY; a negative base or ratio counts as 0
computeBackoffDelay(base, attemptIndex, jitterRatio, random) ==
    LET safeBase == Max(base, 0)
        safeRatio == Max(jitterRatio, 0)
        exponential == Min(safeBase * 2 ^ attemptIndex, MAX_DELAY)
        jitter == (exponential * safeRatio * random) \div 10000
    IN  Max(0, Min(exponential + jitter, MAX_DELAY))

\* faulty variant: one attempt too many
isTerminalLate(attempts, maxAttempts) == attempts > maxAttempts

\* attempts >= maxAttempts: the failure is terminal
isTerminal(attempts, maxAttempts) == attempts >= maxAttempts

Callback(C, name, item, n) ==
    [C EXCEPT !.S = AddEv(@, Ev(name, Some(item), n)),
              !.st[name] = Inc(@, item.id)]

\* options.execute(item) is invoked; run.inflight lists the invocations not yet settled
invoke(C, item) ==
    [Callback(C, "execute", item, 0) EXCEPT !.run.pc = "executing",
                                            !.run.inflight = Append(@, item.id)]

\* faulty variant: the loop takes the newest item of the queue
loopHeadNewestFirst(C) ==
    IF ~(C.run.i <= Len(C.run.queue)) THEN [C EXCEPT !.run.pc = "done"]
    ELSE IF C.run.aborted THEN [C EXCEPT !.run.pc = "done"]
    ELSE invoke(C, C.run.queue[Len(C.run.queue)])

\* faulty variant: the loop does not look at the signal
loopHeadIgnoresAbort(C) ==
    IF ~(C.run.i <= Len(C.run.queue)) THEN [C EXCEPT !.run.pc = "done"]
    ELSE invoke(C, C.run.queue[C.run.i])

\* the head of the for loop up to the next suspension or the return
loopHead(C) ==
    IF ~(C.run.i <= Len(C.run.queue)) THEN [C EXCEPT !.run.pc = "done"]
    ELSE IF C.run.aborted THEN [C EXCEPT !.run.pc = "done"]
    ELSE invoke(C, C.run.queue[C.run.i])

\* faulty variant: the run stores the list it loaded
persistRunLoaded(C, r, fault) ==
    LET w == persist(C.S, C.run.loaded, C.run.userId, fault, r)
    IN  [C |-> [C EXCEPT !.S = w.S], threw |-> w.ret = "throw"]

\* faulty variant: only removals are stored, attempt updates stay in the working array
persistRunRemovalsOnly(C, r, fault) ==
    LET stored == readPendingOps(C.S, C.run.userId, NoFault, NoRef, 0).items
        w == persist(C.S, C.run.queue, C.run.userId, fault, r)
    IN  IF Len(C.run.queue) < Len(stored)
        THEN [C |-> [C EXCEPT !.S = w.S], threw |-> w.ret = "throw"]
        ELSE [C |-> C, threw |-> FALSE]

\* persist(queue, options.userId) on the run's working array
persistRun(C, r, fault) ==
    LET Returned(w) == [C |-> [C EXCEPT !.S = w.S], threw |-> w.ret = "throw"]
    IN  Returned(persist(C.S, C.run.queue, C.run.userId, fault, r))

\* a mutation of the run's working array
setQueue(C, r, q) ==
    [C EXCEPT !.run.queue = q, !.S = MutateShared(@, C.run.userId, r, q)]

\* faulty variant: the delay is computed from the attempts after the increment
catchBlockCountsFromOne(C, r, item, error, fault, nowT, random) ==
    LET updated == failedItem(item, error, nowT)
        i == C.run.i
        delayMs == computeBackoffDelay(C.run.backoffMs, updated.attempts,
                                       C.run.jitterRatio, random)
        C1 == [C EXCEPT !.S = AddEv(@, [type |-> "publish-failure",
                    requestId |-> IF IsSome(errorRequestId(error))
                                  THEN Get(errorRequestId(error)) ELSE "",
                    n |-> updated.attempts, item |-> Some(item),
                    message |-> errorMessage(error), meta |-> << >>])]
        \* terminal drop
        T1 == persistRun(setQueue(C1, r, splice(C1.run.queue, i)), r, fault)
        T2 == Callback(Callback(T1.C, "onItemFailure", updated, updated.attempts),
                       "onPermanentFailure", updated, updated.attempts)
        \* retry
        R1 == persistRun(setQueue(C1, r, assignAt(C1.run.queue, i, updated)), r, fault)
        R2 == [Callback(R1.C, "onItemFailure", updated, updated.attempts)
                  EXCEPT !.S.ev[Len(R1.C.S.ev) + 1].meta = << delayMs >>]
    IN  IF isTerminal(updated.attempts, C.run.maxAttempts)
        THEN IF T1.threw THEN [T1.C EXCEPT !.run.pc = "rejected"] ELSE loopHead(T2)
        ELSE IF R1.threw THEN [R1.C EXCEPT !.run.pc = "rejected"]
        ELSE IF R2.run.aborted THEN [R2 EXCEPT !.run.pc = "done"]
        ELSE [R2 EXCEPT !.run.pc = "waiting"]

\* the catch block, entered with `item` and the thrown value
catchBlock(C, r, item, error, fault, nowT, random) ==
    LET updated == failedItem(item, error, nowT)
        i == C.run.i
        delayMs == computeBackoffDelay(C.run.backoffMs, updated.attempts - 1,
                                       C.run.jitterRatio, random)
        C1 == [C EXCEPT !.S = AddEv(@, [type |-> "publish-failure",
                    requestId |-> IF IsSome(errorRequestId(error))
                                  THEN Get(errorRequestId(error)) ELSE "",
                    n |-> updated.attempts, item |-> Some(item),
                    message |-> errorMessage(error), meta |-> << >>])]
        \* terminal drop: T1 is what persist left after the splice
        Dropped(T1) ==
            IF T1.threw THEN [T1.C EXCEPT !.run.pc = "rejected"]
            ELSE loopHead(Callback(Callback(T1.C, "onItemFailure", updated, updated.attempts),
                                   "onPermanentFailure", updated, updated.attempts))
        \* retry: R1 is what persist left after queue[i] = updated, R2 what onItemFailure left
        Reported(R2) ==
            IF R2.run.aborted THEN [R2 EXCEPT !.run.pc = "done"]
            ELSE [R2 EXCEPT !.run.pc = "waiting"]
        Kept(R1) ==
            IF R1.threw THEN [R1.C EXCEPT !.run.pc = "rejected"]
            ELSE Reported([Callback(R1.C, "onItemFailure", updated, updated.attempts)
                              EXCEPT !.S.ev[Len(R1.C.S.ev) + 1].meta = << delayMs >>])
    IN  IF isTerminal(updated.attempts, C.run.maxAttempts)
        THEN Dropped(persistRun(setQueue(C1, r, splice(C1.run.queue, i)), r, fault))
        ELSE Kept(persistRun(setQueue(C1, r, assignAt(C1.run.queue, i, updated)), r, fault))

\* the try block after `await options.execute(item)` has resolved
afterResolve(C, r, f1, f2, nowT, random) ==
    LET item == C.run.queue[C.run.i]
        \* P is what persist(queue, options.userId) left after the splice
        Persisted(P) ==
            IF P.threw THEN catchBlock(P.C, r, item, PersistErrorValue, f2, nowT, random)
            ELSE loopHead(Callback(P.C, "onSuccess", item, 0))
    IN  Persisted(persistRun(setQueue(C, r, splice(C.run.queue, C.run.i)), r, f1))

\* the catch block after `await options.execute(item)` has rejected
afterReject(C, r, error, f1, nowT, random) ==
    catchBlock(C, r, C.run.queue[C.run.i], error, f1, nowT, random)

\* faulty variant: a signal aborted before the call is not seen
startRunIgnoresSignal(S, st, r, userId, maxAttemptsOpt, backoffMsOpt, jitterRatioOpt, preAborted, f1, nowT) ==
    LET S0 == [S EXCEPT !.mem = [k \in DOMAIN S.mem |->
                  IF S.mem[k].ref = r THEN [S.mem[k] EXCEPT !.ref = NoRef] ELSE S.mem[k]]]
        rd == readPendingOps(S0, userId, f1, r, nowT)
        run == [pc |-> "idle", userId |-> userId,
                maxAttempts |-> IF IsSome(maxAttemptsOpt) THEN Get(maxAttemptsOpt)
                                ELSE DefaultMaxAttempts,
                backoffMs |-> IF IsSome(backoffMsOpt) THEN Get(backoffMsOpt)
                              ELSE DefaultBackoffMs,
                jitterRatio |-> IF IsSome(jitterRatioOpt) THEN Get(jitterRatioOpt)
                                ELSE DefaultJitterRatio,
                queue |-> rd.items, i |-> 1, aborted |-> FALSE, loaded |-> rd.items,
                inflight |-> << >>]
    IN  loopHead([S |-> rd.S, run |-> run, st |-> st])

\* processPendingOps(options) up to its first suspension
startRun(S, st, r, userId, maxAttemptsOpt, backoffMsOpt, jitterRatioOpt, preAborted, f1, nowT) ==
    LET S0 == [S EXCEPT !.mem = [k \in DOMAIN S.mem |->
                  IF S.mem[k].ref = r THEN [S.mem[k] EXCEPT !.ref = NoRef] ELSE S.mem[k]]]
        \* const queue = readPendingOps(options.userId) has returned rd.items
        Loaded(rd) ==
            loopHead([S |-> rd.S,
                      run |-> [pc |-> "idle", userId |-> userId,
                               maxAttempts |-> IF IsSome(maxAttemptsOpt) THEN Get(maxAttemptsOpt)
                                               ELSE DefaultMaxAttempts,
                               backoffMs |-> IF IsSome(backoffMsOpt) THEN Get(backoffMsOpt)
                                             ELSE DefaultBackoffMs,
                               jitterRatio |-> IF IsSome(jitterRatioOpt) THEN Get(jitterRatioOpt)
                                               ELSE DefaultJitterRatio,
                               queue |-> rd.items, i |-> 1, aborted |-> preAborted,
                               loaded |-> rd.items, inflight |-> << >>],
                      st |-> st])
    IN  Loaded(readPendingOps(S0, userId, f1, r, nowT))

(***************************************************************************)
(* Actions.                                                                *)
(***************************************************************************)
Commit(S) ==
    /\ localStorage' = S.ls
    /\ memoryFallbackQueue' = S.mem
    /\ events' = S.ev
    /\ nextId' = S.ids
    /\ setItemLog' = S.log

\* status: the state of the promise the call returned;
\* fn: whether the function under the lock has run ("waiting", "returned" or "threw"), with
\* item and cause what it returned or threw;
\* behind: how many earlier calls had not released the lock when this one was issued;
\* handoff: the call that awaited the lock when this one released it (0: none did)
Call(op, payload, userId) ==
    [op |-> op, payload |-> payload, userId |-> userId, status |-> "pending",
     item |-> None, cause |-> NoFault, behind |-> 0, fn |-> "waiting", handoff |-> 0]

\* the call that awaits the lock behind the one holding it
nextInChain(chain) == IF Len(chain) > 1 THEN chain[2] ELSE 0
\* no enqueue call is in progress
NonePending == \A c \in DOMAIN calls : calls[c].status # "pending"

\* enqueueSaveOperation(payload, userId) is called: withLock appends it to the chain
EnqueueSaveCalled(payload, userId) ==
    /\ calls' = Append(calls, [Call("save", payload, userId) EXCEPT !.behind = Len(writeLock)])
    /\ writeLock' = Append(writeLock, Len(calls) + 1)
    /\ UNCHANGED << localStorageDefined, localStorage, memoryFallbackQueue, nextId, clock,
                    runs, events, stats, setItemLog, starts >>

\* enqueueUpdateOperation(payload, userId) is called
EnqueueUpdateCalled(payload, userId) ==
    /\ calls' = Append(calls, [Call("update", payload, userId) EXCEPT !.behind = Len(writeLock)])
    /\ writeLock' = Append(writeLock, Len(calls) + 1)
    /\ UNCHANGED << localStorageDefined, localStorage, memoryFallbackQueue, nextId, clock,
                    runs, events, stats, setItemLog, starts >>

\* faulty variant: a call whose function throws never releases the lock
LockedBodyRunsKeepsLockOnThrow(f1, f2) ==
    /\ writeLock # << >>
    /\ calls[lockTurn(writeLock)].fn = "waiting"
    /\ LET c == lockTurn(writeLock)
           call == calls[c]
           res == IF call.op = "save"
                  THEN enqueueSaveBody(Store, call.payload, call.userId, f1, f2, clock)
                  ELSE enqueueUpdateBody(Store, call.payload, call.userId, f1, f2, clock)
       IN  /\ Commit(res.S)
           /\ calls' = [calls EXCEPT ![c].fn = IF res.status = "rejected" THEN "threw"
                                                ELSE "returned",
                                     ![c].item = res.item, ![c].cause = res.cause]
           /\ writeLock' = writeLock
    /\ UNCHANGED << localStorageDefined, clock, runs, stats, starts >>

\* the previous lock is released and `await prevLock` resumes: the next call of the chain
\* runs its function.  A function that returns leaves the call suspended in `await fn()`,
\* still holding the lock; one that throws runs the finally block at once.
LockedBodyRuns(f1, f2) ==
    /\ writeLock # << >>
    /\ calls[lockTurn(writeLock)].fn = "waiting"
    /\ LET c == lockTurn(writeLock)
           call == calls[c]
           \* fn() has returned or thrown
           Done(res) ==
               /\ Commit(res.S)
               /\ calls' = IF res.status = "rejected"
                           THEN [calls EXCEPT ![c].fn = "threw", ![c].item = res.item,
                                              ![c].cause = res.cause,
                                              ![c].handoff = nextInChain(writeLock)]
                           ELSE [calls EXCEPT ![c].fn = "returned", ![c].item = res.item,
                                              ![c].cause = res.cause]
               /\ writeLock' = IF res.status = "rejected"
                               THEN SelectSeq(writeLock, LAMBDA x : x # c)
                               ELSE writeLock
       IN  Done(IF call.op = "save"
                THEN enqueueSaveBody(Store, call.payload, call.userId, f1, f2, clock)
                ELSE enqueueUpdateBody(Store, call.payload, call.userId, f1, f2, clock))
    /\ UNCHANGED << localStorageDefined, clock, runs, stats, starts >>

\* `await fn()` resumes in the call that holds the lock and the finally block runs
\* release().  The promises of the earlier calls have settled by then: their settlements
\* were queued when they released the lock, before the function of this call ran
LockReleases ==
    /\ writeLock # << >>
    /\ calls[lockTurn(writeLock)].fn = "returned"
    /\ \A d \in 1..(lockTurn(writeLock) - 1) : calls[d].status # "pending"
    /\ calls' = [calls EXCEPT ![lockTurn(writeLock)].handoff = nextInChain(writeLock)]
    /\ writeLock' = SelectSeq(writeLock, LAMBDA x : x # lockTurn(writeLock))
    /\ UNCHANGED << localStorageDefined, localStorage, memoryFallbackQueue, nextId, clock,
                    runs, events, stats, setItemLog, starts >>

\* the promise enqueueSaveOperation/enqueueUpdateOperation returned settles with what the
\* function returned or threw.  The microtask queue runs this after the call has released
\* the lock, after the continuation of `await prevLock` in the call that took the lock
\* over (queued by release()), and after the settlements of the earlier calls
CallSettles(c) ==
    /\ calls[c].status = "pending"
    /\ calls[c].fn # "waiting"
    /\ \A k \in DOMAIN writeLock : writeLock[k] # c
    /\ \A d \in 1..(c - 1) : calls[d].status # "pending"
    /\ IF calls[c].handoff = 0 THEN TRUE ELSE calls[calls[c].handoff].fn # "waiting"
    /\ calls' = [calls EXCEPT ![c].status = IF calls[c].fn = "threw" THEN "rejected"
                                            ELSE "resolved"]
    /\ UNCHANGED << localStorageDefined, localStorage, memoryFallbackQueue, writeLock, nextId,
                    clock, runs, events, stats, setItemLog, starts >>

\* clearPendingOps(userId) is called; removeThrows: localStorage.removeItem throws
ClearCalled(userId, removeThrows) ==
    /\ Commit(clearStore(Store, userId, removeThrows))
    /\ calls' = Append(calls, [Call("clear", [id |-> "", body |-> ""], userId)
                                  EXCEPT !.status = "resolved", !.fn = "returned"])
    /\ UNCHANGED << localStorageDefined, writeLock, clock, runs, stats, starts >>

\* items a caller of savePendingOps hands over: none, or an update that has failed twice
ForeignItem == [id |-> 7, kind |-> "update", payload |-> [id |-> "s1", body |-> "v1"],
                createdAt |-> 1, attempts |-> 2, lastError |-> None, lastAttemptAt |-> None,
                failures |-> None]
SavedLists == {<< >>, << ForeignItem >>}

\* savePendingOps(items, userId) is called: persist(items, userId), outside the lock; a
\* PersistError reaches the caller
SavePendingOpsCalled(items, userId, fault) ==
    /\ LET Written(w) ==
               /\ Commit(w.S)
               /\ calls' = Append(calls, [Call("write", [id |-> "", body |-> ""], userId)
                                            EXCEPT !.status = IF w.ret = "throw" THEN "rejected"
                                                              ELSE "resolved",
                                                   !.fn = IF w.ret = "throw" THEN "threw"
                                                          ELSE "returned",
                                                   !.cause = w.cause])
       IN  Written(persist(Store, items, userId, fault, NoRef))
    /\ UNCHANGED << localStorageDefined, writeLock, clock, runs, stats, starts >>

\* readPendingOps(userId) is called from outside the queue
ReadCalled(userId, f1) ==
    /\ Commit(DropLocalRefs(readPendingOps(Store, userId, f1, LocalRef, clock).S))
    /\ UNCHANGED << localStorageDefined, writeLock, calls, clock, runs, stats, starts >>

\* an observation of the model: the list a readPendingOps call returned to its caller
Returned(items) ==
    [type |-> "returned", requestId |-> "", n |-> Len(items), item |-> items, message |-> "",
     meta |-> << >>]

\* readPendingOps(userId) is called from outside the queue and its caller keeps the result
ReadObserved(userId, f1) ==
    /\ LET r == readPendingOps(Store, userId, f1, LocalRef, clock)
       IN  Commit(DropLocalRefs(AddEv(r.S, Returned(r.items))))
    /\ UNCHANGED << localStorageDefined, writeLock, calls, clock, runs, stats, starts >>

CommitRun(C, r) ==
    /\ Commit(C.S)
    /\ runs' = [runs EXCEPT ![r] = C.run]
    /\ stats' = C.st

Ctx(r) == [S |-> Store, run |-> runs[r], st |-> stats]
\* the context in which the continuation of `await options.execute(item)` runs
Settled(r) == [Ctx(r) EXCEPT !.run.inflight = Tail(@)]

\* processPendingOps(options) is called
ProcessCalledWith(r, userId, maxAttemptsOpt, backoffMsOpt, jitterRatioOpt, preAborted, f1) ==
    /\ runs[r].pc \in {"idle", "done", "rejected"}
    /\ starts' = starts + 1
    /\ CommitRun(startRun(Store, stats, r, userId, maxAttemptsOpt, backoffMsOpt,
                          jitterRatioOpt, preAborted, f1, clock), r)
    /\ UNCHANGED << localStorageDefined, writeLock, calls, clock >>

\* processPendingOps({ userId, maxAttempts, signal, jitterRatio: 0, ... }) is called
ProcessCalled(r, userId, maxAttemptsOpt, preAborted, f1) ==
    ProcessCalledWith(r, userId, maxAttemptsOpt, None, Some(0), preAborted, f1)

\* the values Math.random() may return to the run, in hundredths (with a jitter ratio of
\* 0 or less the draw does not reach the delay, and one value stands for all)
Randoms == {0, 50, 99}
Draws(r) == IF runs[r].jitterRatio <= 0 THEN {0} ELSE Randoms

\* the promise execute(item) returned resolves
ExecuteResolves(r, f1, f2) ==
    /\ runs[r].pc = "executing"
    /\ \E random \in Draws(r) : CommitRun(afterResolve(Settled(r), r, f1, f2, clock, random), r)
    /\ UNCHANGED << localStorageDefined, writeLock, calls, clock, starts >>

\* the promise execute(item) returned rejects with `error`
ExecuteRejects(r, error, f1) ==
    /\ runs[r].pc = "executing"
    /\ \E random \in Draws(r) : CommitRun(afterReject(Settled(r), r, error, f1, clock, random), r)
    /\ UNCHANGED << localStorageDefined, writeLock, calls, clock, starts >>

\* the timer of wait(delayMs) fires
BackoffElapsed(r) ==
    /\ runs[r].pc = "waiting"
    /\ CommitRun(loopHead(Ctx(r)), r)
    /\ UNCHANGED << localStorageDefined, writeLock, calls, clock, starts >>

\* the owner of the AbortSignal aborts it
Abort(r) ==
    /\ runs[r].pc \in {"executing", "waiting"}
    /\ ~runs[r].aborted
    /\ runs' = [runs EXCEPT ![r].aborted = TRUE]
    /\ UNCHANGED << localStorageDefined, localStorage, memoryFallbackQueue, writeLock, calls,
                    nextId, clock, events, stats, setItemLog, starts >>

\* time passes
Tick ==
    /\ clock < MaxClock
    /\ clock' = clock + 1
    /\ UNCHANGED << localStorageDefined, localStorage, memoryFallbackQueue, writeLock, calls,
                    nextId, runs, events, stats, setItemLog, starts >>

(***************************************************************************)
(* Initial state: nothing stored, nothing called.                          *)
(***************************************************************************)
EmptyStorage == [k \in Keys |-> AbsentDoc]
EmptyMemory == [k \in Keys |-> NoEntry]

InitCommon ==
    /\ memoryFallbackQueue = EmptyMemory
    /\ writeLock = << >>
    /\ calls = << >>
    /\ nextId = 1
    /\ clock = 1
    /\ runs = [r \in Runs |-> IdleRun]
    /\ events = << >>
    /\ stats = NoStats
    /\ setItemLog = {}
    /\ starts = 0

\* a browser session: localStorage exists
Init ==
    /\ localStorageDefined = TRUE
    /\ localStorage = EmptyStorage
    /\ InitCommon

(***************************************************************************)
(* Spec: one owner; enqueue calls interleave with the steps of one replay  *)
(* run; every setItem call may succeed, hit the quota or fail otherwise.   *)
(***************************************************************************)
AttemptOptions == {Some(1), Some(2)}
\* readPendingOps calls setItem only to store a trimmed or a migrated queue, and the
\* catch block runs after a resolved execute only when the first setItem threw: where a
\* handler cannot reach a setItem call its outcome is left at NoFault
SecondFaults(f1) == IF SetItemOutcome(f1) = "error" THEN Faults ELSE {NoFault}
SameScreenUpdates == {p \in UpdatePayloads : p.id = "s1"}

\* (an enqueue call is issued when the previous one has settled, at any point of the run:
\* the functions under the lock run one after the other in issue order whenever they are
\* issued, and SpecLock has the calls that wait in the chain)
Next ==
    \/ \E p \in SavePayloads :
          Len(calls) < MaxCalls /\ NonePending /\ EnqueueSaveCalled(p, "u1")
    \/ \E p \in SameScreenUpdates :
          Len(calls) < MaxCalls /\ NonePending /\ EnqueueUpdateCalled(p, "u1")
    \/ \E f2 \in Faults : LockedBodyRuns(NoFault, f2)
    \/ LockReleases
    \/ \E c \in DOMAIN calls : CallSettles(c)
    \/ \E m \in AttemptOptions :
          runs[1].pc = "idle" /\ ProcessCalled(1, "u1", m, FALSE, NoFault)
    \/ \E f1 \in Faults : \E f2 \in SecondFaults(f1) : ExecuteResolves(1, f1, f2)
    \/ \E f1 \in Faults : ExecuteRejects(1, NetworkError, f1)
    \/ BackoffElapsed(1)

Spec == Init /\ [][Next]_vars

(***************************************************************************)
(* SpecReplay: a queue that enqueue calls have filled is replayed by one   *)
(* run while time passes; execute rejects with every kind of value.        *)
(***************************************************************************)
EmptyStore == [ls |-> EmptyStorage, mem |-> EmptyMemory, ev |-> << >>, ids |-> 1, log |-> {}]

\* the store after the enqueue calls of `fill` have run in order, every write succeeding
RECURSIVE Fill(_, _, _)
Fill(S, fill, nowT) ==
    IF fill = << >> THEN S
    ELSE LET c == Head(fill)
             res == IF c.op = "save"
                    THEN enqueueSaveBody(S, c.payload, c.userId, NoFault, NoFault, nowT)
                    ELSE enqueueUpdateBody(S, c.payload, c.userId, NoFault, NoFault, nowT)
         IN  Fill(res.S, Tail(fill), nowT)

SaveCall == Call("save", [id |-> "s1", body |-> "v1"], "u1")
UpdateCall(sid) == Call("update", [id |-> sid, body |-> "v1"], "u1")
ReplayFills == { << SaveCall >>,
                 << SaveCall, UpdateCall("s1") >>,
                 << UpdateCall("s2"), SaveCall, UpdateCall("s1") >> }

InitFilled(fills) ==
    /\ localStorageDefined = TRUE
    /\ \E fill \in fills :
          LET S == Fill(EmptyStore, fill, 1)
          IN  /\ localStorage = S.ls
              /\ memoryFallbackQueue = S.mem
              /\ nextId = S.ids
    /\ writeLock = << >>
    /\ calls = << >>
    /\ clock = 1
    /\ runs = [r \in Runs |-> IdleRun]
    /\ events = << >>
    /\ stats = NoStats
    /\ setItemLog = {}
    /\ starts = 0

NextReplay ==
    \/ \E m \in AttemptOptions, a \in BOOLEAN :
          runs[1].pc = "idle" /\ ProcessCalled(1, "u1", m, a, NoFault)
    \/ \E f1 \in Faults : \E f2 \in SecondFaults(f1) : ExecuteResolves(1, f1, f2)
    \/ \E e \in ExecuteErrors, f1 \in Faults : ExecuteRejects(1, e, f1)
    \/ BackoffElapsed(1)
    \/ Abort(1)
    \/ Tick

SpecReplay == InitFilled(ReplayFills) /\ [][NextReplay]_vars

(***************************************************************************)
(* SpecLock: enqueue calls only, issued and run in every interleaving.     *)
(***************************************************************************)
NextLock ==
    \/ \E p \in SavePayloads : Len(calls) < MaxLockCalls /\ EnqueueSaveCalled(p, "u1")
    \/ \E p \in UpdatePayloads : Len(calls) < MaxLockCalls /\ EnqueueUpdateCalled(p, "u1")
    \/ \E f2 \in Faults : LockedBodyRuns(NoFault, f2)
    \/ LockReleases
    \/ \E c \in DOMAIN calls : CallSettles(c)

SpecLock == Init /\ [][NextLock]_vars

(***************************************************************************)
(* SpecRelease: enqueue calls issued in every interleaving with the        *)
(* functions under the lock; setItem succeeds or throws a SecurityError,   *)
(* so that calls reject.  The continuations of `await prevLock` and of     *)
(* `await fn()` run once they are ready, and so does the settlement of the *)
(* returned promise (weak fairness).                                       *)
(***************************************************************************)
ReleaseFaults == {NoFault, SecurityError}
LockGranted == \E f2 \in ReleaseFaults : LockedBodyRuns(NoFault, f2)

NextRelease ==
    \/ \E p \in SavePayloads : Len(calls) < MaxReleaseCalls /\ EnqueueSaveCalled(p, "u1")
    \/ Len(calls) < MaxReleaseCalls /\ EnqueueUpdateCalled(UpdateCall("s1").payload, "u1")
    \/ LockGranted
    \/ LockReleases
    \/ \E c \in DOMAIN calls : CallSettles(c)

\* the continuation of `await prevLock` runs: the function of the call whose turn it is
\* creates the id of its item (a LockGranted step; one is enabled whenever that function
\* waits)
FunctionRuns ==
    /\ writeLock # << >>
    /\ calls[lockTurn(writeLock)].fn = "waiting"
    /\ nextId' = nextId + 1
\* the finally block of a function that returned runs (a LockReleases step)
ChainAdvances ==
    /\ writeLock # << >>
    /\ calls[lockTurn(writeLock)].fn = "returned"
    /\ \A d \in 1..(lockTurn(writeLock) - 1) : calls[d].status # "pending"
    /\ writeLock' = SelectSeq(writeLock, LAMBDA x : x # lockTurn(writeLock))

\* the microtask queue runs every continuation that is ready: the continuation of
\* `await prevLock` once the previous lock is released, the finally block after
\* `await fn()`, and the settlement of the promise the call returned
LockFairness ==
    /\ WF_nextId(FunctionRuns)
    /\ WF_writeLock(ChainAdvances)
    /\ WF_vars(\E c \in DOMAIN calls : CallSettles(c))

SpecRelease == Init /\ [][NextRelease]_vars /\ LockFairness

(***************************************************************************)
(* SpecReject: a queue of fresh items is replayed by one run whose execute *)
(* always rejects and whose signal is never aborted; maxAttempts is the    *)
(* default or 1..MaxRejectAttempts; setItem returns or throws any error.   *)
(***************************************************************************)
RejectFills == { << SaveCall >>, << SaveCall, UpdateCall("s1") >> }
RejectAttemptOptions == {None} \cup {Some(k) : k \in 1..MaxRejectAttempts}
StoringFaults == {NoFault, QuotaExceededError}

NextReject ==
    \/ \E m \in RejectAttemptOptions :
          runs[1].pc = "idle" /\ ProcessCalled(1, "u1", m, FALSE, NoFault)
    \/ \E f1 \in Faults : ExecuteRejects(1, NetworkError, f1)
    \/ BackoffElapsed(1)
    \/ Tick

SpecReject == InitFilled(RejectFills) /\ [][NextReject]_vars

(***************************************************************************)
(* SpecTrim: the owner's durable document holds n save items, n = 0 or     *)
(* within MaxOversize of MAX_QUEUE_SIZE: up to the cap it is what n        *)
(* enqueueSaveOperation calls leave, above the cap it is a document        *)
(* another writer left (pendingQueue.test.ts, "trims oversized stored      *)
(* queues on read").  Enqueue calls and reads follow, under every outcome  *)
(* of setItem.                                                             *)
(***************************************************************************)
TrimSizes ==
    {0} \cup ((MAX_QUEUE_SIZE - MaxOversize)..(MAX_QUEUE_SIZE + MaxOversize))
\* the reads of the later calls hydrate the earlier items, whose empty failures array
\* normalizeFailures turns into undefined, and JSON.stringify leaves the key out: only
\* the item of the last call is stored with failures []; the items of the test's document
\* have no failures key
StoredSaves(n) ==
    [k \in 1..n |-> [newItem(k, "save", SaveCall.payload, 1) EXCEPT
                        !.failures = IF k = n /\ n <= MAX_QUEUE_SIZE THEN Some(<< >>) ELSE None]]

InitTrim ==
    /\ localStorageDefined = TRUE
    /\ \E n \in TrimSizes :
          /\ localStorage = [EmptyStorage EXCEPT ![buildKey("u1")] =
                                IF n = 0 THEN AbsentDoc ELSE JSONStringify(StoredSaves(n))]
          /\ nextId = n + 1
    /\ memoryFallbackQueue = EmptyMemory
    /\ writeLock = << >>
    /\ calls = << >>
    /\ clock = 1
    /\ runs = [r \in Runs |-> IdleRun]
    /\ events = << >>
    /\ stats = NoStats
    /\ setItemLog = {}
    /\ starts = 0

\* readPendingOps calls setItem only to store a trimmed queue (no legacy document exists
\* here): otherwise the outcome of its setItem call is left at NoFault
ReadFaults(userId) ==
    IF /\ ~memoryFallbackQueue[buildKey(userId)].present
       /\ Len(localStorage[buildKey(userId)].entries) > MAX_QUEUE_SIZE
    THEN Faults ELSE {NoFault}

\* (each enqueue call is issued when the previous one has settled: the interleavings of
\* the lock are SpecLock's subject)
NextTrim ==
    \/ \E p \in SavePayloads :
          Len(calls) < MaxTrimCalls /\ NonePending /\ EnqueueSaveCalled(p, "u1")
    \/ \E p \in SameScreenUpdates :
          Len(calls) < MaxTrimCalls /\ NonePending /\ EnqueueUpdateCalled(p, "u1")
    \/ \E f1 \in ReadFaults("u1") : \E f2 \in Faults : LockedBodyRuns(f1, f2)
    \/ LockReleases
    \/ \E c \in DOMAIN calls : CallSettles(c)
    \/ \E f1 \in ReadFaults("u1") : ReadCalled("u1", f1)

SpecTrim == InitTrim /\ [][NextTrim]_vars

(***************************************************************************)
(* SpecFallback: enqueue and clear calls of one owner; setItem succeeds or *)
(* throws any of the modelled values.                                      *)
(***************************************************************************)
AllFaults == {NoFault} \cup SetItemErrors

NextFallback ==
    \/ \E p \in SavePayloads : Len(calls) < MaxStoreCalls /\ EnqueueSaveCalled(p, "u1")
    \/ Len(calls) < MaxStoreCalls /\ EnqueueUpdateCalled(UpdateCall("s1").payload, "u1")
    \/ \E f2 \in AllFaults : LockedBodyRuns(NoFault, f2)
    \/ LockReleases
    \/ \E c \in DOMAIN calls : CallSettles(c)
    \/ \E t \in BOOLEAN : Len(calls) < MaxStoreCalls /\ ClearCalled("u1", t)

SpecFallback == Init /\ [][NextFallback]_vars

(***************************************************************************)
(* SpecDuring: enqueue calls fill the queue, run 1 replays it, and further *)
(* enqueue calls are issued and run while run 1 is suspended in execute or *)
(* in a backoff wait, none after it has returned; processPendingOps is     *)
(* then called again (run 2).                                              *)
(***************************************************************************)
Suspended(r) == runs[r].pc \in {"executing", "waiting"}
\* run 1 is called first, run 2 once run 1 has returned
MayStart(r) ==
    /\ NonePending
    /\ runs[r].pc = "idle"
    /\ r = 2 => runs[1].pc = "done"

NextDuring ==
    \/ \E p \in SavePayloads :
          /\ runs[1].pc # "done" /\ Len(calls) < MaxDuringCalls /\ NonePending
          /\ EnqueueSaveCalled(p, "u1")
    \/ \E p \in SameScreenUpdates :
          /\ runs[1].pc # "done" /\ Len(calls) < MaxDuringCalls /\ NonePending
          /\ EnqueueUpdateCalled(p, "u1")
    \/ \E f2 \in StoringFaults : runs[1].pc # "done" /\ LockedBodyRuns(NoFault, f2)
    \/ LockReleases
    \/ \E c \in DOMAIN calls : CallSettles(c)
    \/ \E r \in Runs, m \in AttemptOptions :
          MayStart(r) /\ ProcessCalled(r, "u1", m, FALSE, NoFault)
    \/ \E f1 \in StoringFaults : ExecuteResolves(1, f1, NoFault)
    \/ \E f1 \in StoringFaults : ExecuteRejects(1, NetworkError, f1)
    \/ BackoffElapsed(1)
    \/ Abort(1)

SpecDuring == Init /\ [][NextDuring]_vars

(***************************************************************************)
(* SpecOverlap: processPendingOps is called twice for the same owner, the   *)
(* second call while the first may still be awaiting execute or a backoff; *)
(* each run works on the array it read at its start.  Every write is       *)
(* stored.                                                                 *)
(***************************************************************************)
OverlapAttemptOptions == {None, Some(1)}

NextOverlap ==
    \/ \E r \in Runs, m \in OverlapAttemptOptions :
          runs[r].pc = "idle" /\ ProcessCalled(r, "u1", m, FALSE, NoFault)
    \/ \E r \in Runs : ExecuteResolves(r, NoFault, NoFault)
    \/ \E r \in Runs : ExecuteRejects(r, NetworkError, NoFault)
    \/ \E r \in Runs : BackoffElapsed(r)

SpecOverlap == InitFilled(RejectFills) /\ [][NextOverlap]_vars

(***************************************************************************)
(* SpecRead: readPendingOps on what a browser may hold under the owner's   *)
(* keys: nothing, text that is not JSON, JSON that is not an array, a key  *)
(* whose getItem throws, arrays of well-formed and malformed entries, and, *)
(* with no versioned key, legacy arrays (pendingQueue.test.ts, "filters    *)
(* invalid stored queue entries" to "skips legacy items with unknown       *)
(* kinds").                                                                *)
(***************************************************************************)
InvalidJson == [type |-> "invalid", entries |-> << >>]     \* "{not-json"
ObjectDoc == [type |-> "object", entries |-> << >>]        \* {"bad": true}
ThrowingKey == [type |-> "throws", entries |-> << >>]      \* getItem(key) throws
UnreadableDocs == {InvalidJson, ObjectDoc, ThrowingKey}

\* null, a string, {"bad": true}: an entry with neither id nor kind, and no payload
NullEntry ==
    [id |-> None, kind |-> None, createdAt |-> None, attempts |-> None, lastError |-> None,
     lastAttemptAt |-> None, failures |-> None]
\* {"kind": "save"}: no id and no payload
KindOnlyEntry == [NullEntry EXCEPT !.kind = Some("save")]
\* {"id": "ok-1", "kind": "save", "payload": {...}}
SparseEntry ==
    [id |-> Some(11), kind |-> Some("save"), payload |-> SaveCall.payload, createdAt |-> None,
     attempts |-> None, lastError |-> None, lastAttemptAt |-> None, failures |-> None]
RetriedEntry ==
    [SparseEntry EXCEPT !.id = Some(12), !.createdAt = Some(1), !.attempts = Some(1),
                        !.lastError = Some("timeout"), !.lastAttemptAt = Some(1)]
StoredFailure(at) == [at |-> Some(at), message |-> Some("boom"), requestId |-> None]
MalformedFailure == [at |-> None, message |-> Some("boom"), requestId |-> None]
\* an item another writer left with more failure entries than the log keeps
LongLogEntry ==
    [RetriedEntry EXCEPT !.id = Some(13), !.kind = Some("update"), !.attempts = Some(7),
                         !.failures = Some(<< StoredFailure(1), MalformedFailure >>
                                           \o [k \in 1..MAX_FAILURE_LOG |-> StoredFailure(k + 1)])]
\* an item whose last error had an empty message
BlankErrorEntry == [RetriedEntry EXCEPT !.id = Some(14), !.lastError = Some("")]
StoredEntries ==
    {NullEntry, KindOnlyEntry, SparseEntry, RetriedEntry, BlankErrorEntry, LongLogEntry}

SeqsUpTo(S, n) == UNION {[1..k -> S] : k \in 0..n}

VersionedDocs ==
    UnreadableDocs
    \cup {ArrayDoc(es) : es \in SeqsUpTo(StoredEntries, MaxDocLen)}
    \cup {ArrayDoc(<< NullEntry, KindOnlyEntry, SparseEntry >>)}
    \cup {JSONStringify(StoredSaves(MAX_QUEUE_SIZE + 1))}

LegacyPayload(id, body) == Some([id |-> id, body |-> body])
LegacySave == [kind |-> Some("save"), payload |-> LegacyPayload(None, Some("Old"))]
LegacyUpdate == [kind |-> Some("update"), payload |-> LegacyPayload(Some("legacy"), Some("later"))]
LegacySaveBare == [kind |-> Some("save"), payload |-> LegacyPayload(None, None)]
LegacyUpdateBare == [kind |-> Some("update"), payload |-> LegacyPayload(None, None)]
LegacyBad == [kind |-> None, payload |-> None]
LegacyDelete == [kind |-> Some("delete"), payload |-> LegacyPayload(Some("nope"), None)]
LegacyNoKind == [kind |-> None, payload |-> LegacyPayload(None, Some("Old"))]
LegacyNoPayload == [kind |-> Some("save"), payload |-> None]
LegacyEntries == {LegacySave, LegacyUpdate, LegacySaveBare, LegacyUpdateBare, LegacyBad,
                  LegacyDelete, LegacyNoKind, LegacyNoPayload}

LegacyDocs ==
    {AbsentDoc} \cup UnreadableDocs
    \cup {ArrayDoc(es) : es \in SeqsUpTo(LegacyEntries, MaxDocLen)}
    \cup {ArrayDoc([k \in 1..n |-> LegacySave]) :
             n \in MAX_QUEUE_SIZE..(MAX_QUEUE_SIZE + MaxLegacyOver)}

InitRead ==
    /\ localStorageDefined = TRUE
    /\ \E v \in VersionedDocs \cup {AbsentDoc}, l \in LegacyDocs :
          /\ v = AbsentDoc \/ l = AbsentDoc
          /\ localStorage = [EmptyStorage EXCEPT ![buildKey("u1")] = v,
                                                 ![legacyKey("u1")] = l]
    /\ InitCommon

\* a migration that fails (setItem or an entry throws) has called genId and is repeated by
\* the next read: at most MaxMigrations of them are followed
MayRead(userId, f1) ==
    LET ids == readPendingOps(Store, userId, f1, LocalRef, clock).S.ids
    IN  \/ ids = nextId
        \/ ids <= 1 + MaxMigrations * Len(localStorage[legacyKey(userId)].entries)

\* what the storage does in a read: the outcome of setItem, with removeItem returning or
\* throwing
ReadOutcomes == Faults \cup {RemoveItemThrows(f) : f \in Faults}

NextRead ==
    \/ \E f1 \in ReadOutcomes : MayRead("u1", f1) /\ ReadObserved("u1", f1)
    \/ Tick

SpecRead == InitRead /\ [][NextRead]_vars

(***************************************************************************)
(* SpecClear: enqueue and clear calls of one owner, in a browser (with or  *)
(* without a legacy key left by the v1 format) or where localStorage does  *)
(* not exist; setItem and removeItem succeed or throw.                     *)
(***************************************************************************)
InitClear ==
    /\ localStorageDefined \in BOOLEAN
    /\ \E l \in {AbsentDoc, ArrayDoc(<< LegacySave >>)} :
          /\ ~localStorageDefined => l = AbsentDoc
          /\ localStorage = [EmptyStorage EXCEPT ![legacyKey("u1")] = l]
    /\ InitCommon

NextClear ==
    \/ \E p \in SavePayloads :
          Len(calls) < MaxClearCalls /\ NonePending /\ EnqueueSaveCalled(p, "u1")
    \/ /\ Len(calls) < MaxClearCalls /\ NonePending
       /\ EnqueueUpdateCalled(UpdateCall("s1").payload, "u1")
    \/ \E f1 \in Faults : \E f2 \in Faults : LockedBodyRuns(f1, f2)
    \/ LockReleases
    \/ \E c \in DOMAIN calls : CallSettles(c)
    \/ \E t \in BOOLEAN : Len(calls) < MaxClearCalls /\ ClearCalled("u1", t)

SpecClear == InitClear /\ [][NextClear]_vars

(***************************************************************************)
(* SpecClearDuring: clearPendingOps(owner) is called once while a run for  *)
(* that owner awaits execute or a backoff timer; removeItem succeeds and   *)
(* every write is stored.                                                  *)
(***************************************************************************)
NextClearDuring ==
    \/ \E m \in OverlapAttemptOptions :
          runs[1].pc = "idle" /\ ProcessCalled(1, "u1", m, FALSE, NoFault)
    \/ ExecuteResolves(1, NoFault, NoFault)
    \/ ExecuteRejects(1, NetworkError, NoFault)
    \/ BackoffElapsed(1)
    \/ /\ runs[1].pc \in {"executing", "waiting"} /\ calls = << >>
       /\ ClearCalled("u1", FALSE)

SpecClearDuring == InitFilled(ReplayFills) /\ [][NextClearDuring]_vars

(***************************************************************************)
(* SpecEntry: the life of an owner's fallback entry.  Enqueue and clear    *)
(* calls and one run, each step taken when the lock is free; every setItem *)
(* call succeeds, hits the quota or throws a SecurityError.                *)
(***************************************************************************)
NextEntry ==
    \/ \E p \in SavePayloads :
          Len(calls) < MaxEntryCalls /\ NonePending /\ EnqueueSaveCalled(p, "u1")
    \/ \E f2 \in Faults : LockedBodyRuns(NoFault, f2)
    \/ LockReleases
    \/ \E c \in DOMAIN calls : CallSettles(c)
    \/ Len(calls) < MaxEntryCalls /\ NonePending /\ ClearCalled("u1", FALSE)
    \/ \E items \in SavedLists, f \in Faults :
          Len(calls) < MaxEntryCalls /\ NonePending /\ SavePendingOpsCalled(items, "u1", f)
    \/ NonePending /\ runs[1].pc = "idle" /\ ProcessCalled(1, "u1", Some(2), FALSE, NoFault)
    \/ \E f1 \in Faults : \E f2 \in SecondFaults(f1) :
          NonePending /\ ExecuteResolves(1, f1, f2)
    \/ \E f1 \in Faults : NonePending /\ ExecuteRejects(1, NetworkError, f1)
    \/ NonePending /\ BackoffElapsed(1)

SpecEntry == InitFilled(RejectFills) /\ [][NextEntry]_vars

(***************************************************************************)
(* SpecAbsent: every operation of the queue where localStorage does not    *)
(* exist (pendingQueue.test.ts, "returns empty when storage is             *)
(* unavailable").                                                          *)
(***************************************************************************)
InitAbsent ==
    /\ localStorageDefined = FALSE
    /\ localStorage = EmptyStorage
    /\ InitCommon

NextAbsent ==
    \/ \E p \in SavePayloads : Len(calls) < MaxAbsentCalls /\ EnqueueSaveCalled(p, "u1")
    \/ \E p \in UpdatePayloads : Len(calls) < MaxAbsentCalls /\ EnqueueUpdateCalled(p, "u1")
    \/ \E f1 \in Faults : \E f2 \in SecondFaults(f1) : LockedBodyRuns(f1, f2)
    \/ LockReleases
    \/ \E c \in DOMAIN calls : CallSettles(c)
    \/ \E t \in BOOLEAN : Len(calls) < MaxAbsentCalls /\ ClearCalled("u1", t)
    \/ \E f1 \in Faults : ReadObserved("u1", f1)
    \/ \E m \in AttemptOptions, a \in BOOLEAN, f1 \in Faults :
          starts < MaxAbsentStarts /\ ProcessCalled(1, "u1", m, a, f1)

SpecAbsent == InitAbsent /\ [][NextAbsent]_vars

(***************************************************************************)
(* SpecLog: the stored queue holds an item that has failed 7 times and     *)
(* carries more failure entries than the log keeps; one run at a time      *)
(* replays it with an execute that rejects with a traced error, and the queue is read between  *)
(* the steps.                                                              *)
(***************************************************************************)
LogDocs ==
    { << LongLogEntry >>, << RetriedEntry, LongLogEntry >>, << BlankErrorEntry, LongLogEntry >> }
LogAttemptOptions == {Some(k) : k \in (MaxLogAttempts - 1)..MaxLogAttempts}

InitLog ==
    /\ localStorageDefined = TRUE
    /\ \E d \in LogDocs : localStorage = [EmptyStorage EXCEPT ![buildKey("u1")] = ArrayDoc(d)]
    /\ InitCommon

NextLog ==
    \/ \E m \in LogAttemptOptions :
          runs[1].pc = "idle" /\ ProcessCalled(1, "u1", m, FALSE, NoFault)
    \/ \E f1 \in StoringFaults : ExecuteRejects(1, TracedError, f1)
    \/ BackoffElapsed(1)
    \/ ReadObserved("u1", NoFault)

SpecLog == InitLog /\ [][NextLog]_vars

(***************************************************************************)
(* SpecSettle: one run that is never cancelled, on a stored queue whose    *)
(* items have failed 0, 1 or 7 times before, with maxAttempts 0 to 3; each *)
(* execute resolves or rejects and every write is stored durably or in the *)
(* fallback.  SpecSettleFair adds what the run is promised: every pending  *)
(* execute settles and every backoff timer fires.  SpecSettleAnyWrite is   *)
(* SpecSettleFair with writes that may also throw a SecurityError.         *)
(***************************************************************************)
SettleDocs == { << SparseEntry >>, << RetriedEntry, SparseEntry >>,
                << SparseEntry, LongLogEntry, RetriedEntry >> }
SettleAttemptOptions == {None, Some(0), Some(1), Some(2)}

InitSettle ==
    /\ localStorageDefined = TRUE
    /\ \E d \in SettleDocs : localStorage = [EmptyStorage EXCEPT ![buildKey("u1")] = ArrayDoc(d)]
    /\ InitCommon

ExecuteSettles ==
    \/ \E f1 \in StoringFaults : ExecuteResolves(1, f1, NoFault)
    \/ \E f1 \in StoringFaults : ExecuteRejects(1, NetworkError, f1)

NextSettle ==
    \/ \E m \in SettleAttemptOptions :
          runs[1].pc = "idle" /\ ProcessCalled(1, "u1", m, FALSE, NoFault)
    \/ ExecuteSettles
    \/ BackoffElapsed(1)

SpecSettle == InitSettle /\ [][NextSettle]_vars

SpecSettleFair == SpecSettle /\ WF_vars(ExecuteSettles) /\ WF_vars(BackoffElapsed(1))

\* the same run in a browser whose setItem may also throw an error that is not a quota error
ExecuteSettlesAnyWrite ==
    \/ \E f1 \in Faults : \E f2 \in SecondFaults(f1) : ExecuteResolves(1, f1, f2)
    \/ \E f1 \in Faults : ExecuteRejects(1, NetworkError, f1)

NextSettleAnyWrite ==
    \/ \E m \in SettleAttemptOptions :
          runs[1].pc = "idle" /\ ProcessCalled(1, "u1", m, FALSE, NoFault)
    \/ ExecuteSettlesAnyWrite
    \/ BackoffElapsed(1)

SpecSettleAnyWrite ==
    /\ InitSettle /\ [][NextSettleAnyWrite]_vars
    /\ WF_vars(ExecuteSettlesAnyWrite) /\ WF_vars(BackoffElapsed(1))

(***************************************************************************)
(* SpecSuspend: runs of one owner with nothing else writing and every      *)
(* setItem succeeding; the queue was left by enqueue calls, a later run    *)
(* starts from what the run before it stored; execute resolves or rejects  *)
(* with any of the thrown values and the clock advances between steps.     *)
(* The first run may also find the queue under the legacy key, as the v1   *)
(* format left it.                                                         *)
(***************************************************************************)
InitSuspend ==
    \/ InitFilled(ReplayFills)
    \/ /\ localStorageDefined = TRUE
       /\ localStorage = [EmptyStorage EXCEPT
                             ![legacyKey("u1")] = ArrayDoc(<< LegacySave, LegacyUpdate >>)]
       /\ InitCommon

NextSuspend ==
    \/ \E m \in AttemptOptions :
          starts < MaxSuspendStarts /\ ProcessCalled(1, "u1", m, FALSE, NoFault)
    \/ ExecuteResolves(1, NoFault, NoFault)
    \/ \E e \in ExecuteErrors : ExecuteRejects(1, e, NoFault)
    \/ BackoffElapsed(1)
    \/ Tick

SpecSuspend == InitSuspend /\ [][NextSuspend]_vars

(***************************************************************************)
(* SpecOwners: the operations of the queue called for several owners: the  *)
(* anonymous owner, the user u1, a user whose id is "anon" and a user      *)
(* whose id is "v2_u1".  u1 has a queue, left by its enqueue calls or, with *)
(* entries that are no items, by another writer; writes are stored durably *)
(* or in the fallback; a call is issued when the previous ones have        *)
(* settled.                                                                *)
(***************************************************************************)
\* the queue of u1 as its enqueue calls left it, or the document another writer left under
\* the key of u1: null, an entry with a kind only, and an item
InitOwners ==
    \/ InitFilled(RejectFills)
    \/ /\ localStorageDefined = TRUE
       /\ localStorage = [EmptyStorage EXCEPT
                             ![buildKey("u1")] = ArrayDoc(<< NullEntry, KindOnlyEntry, SparseEntry >>)]
       /\ InitCommon

\* a step of an operation called for owner a
OwnerActs(a) ==
    \/ \E p \in SavePayloads :
          Len(calls) < MaxOwnerCalls /\ NonePending /\ EnqueueSaveCalled(p, a)
    \/ /\ writeLock # << >> /\ calls[lockTurn(writeLock)].userId = a
       /\ \E f2 \in StoringFaults : LockedBodyRuns(NoFault, f2)
    \/ writeLock # << >> /\ calls[lockTurn(writeLock)].userId = a /\ LockReleases
    \/ \E c \in DOMAIN calls : calls[c].userId = a /\ CallSettles(c)
    \/ Len(calls) < MaxOwnerCalls /\ NonePending /\ ClearCalled(a, FALSE)
    \/ \E f \in StoringFaults :
          Len(calls) < MaxOwnerCalls /\ NonePending /\ SavePendingOpsCalled(<< ForeignItem >>, a, f)
    \* a read whose migration fails has called genId and is repeated by the next read: such
    \* reads are followed while nextId <= MaxMigrations
    \/ /\ LET r == readPendingOps(Store, a, NoFault, LocalRef, clock)
          IN  r.S.ids = nextId \/ r.items # << >> \/ nextId <= MaxMigrations
       /\ ReadCalled(a, NoFault)
    \/ runs[1].pc = "idle" /\ ProcessCalled(1, a, Some(1), FALSE, NoFault)
    \/ runs[1].userId = a /\ ExecuteResolves(1, NoFault, NoFault)
    \/ runs[1].userId = a /\ ExecuteRejects(1, NetworkError, NoFault)

NextOwners == \E a \in OwnerIds : OwnerActs(a)

SpecOwners == InitOwners /\ [][NextOwners]_vars

(***************************************************************************)
(* SpecFrame: enqueue calls, each issued when the previous one has         *)
(* settled, on a queue that is empty, at the cap, or just below it, and    *)
(* whose newest item is an update of screen s2; the updates target two     *)
(* screens; writes succeed or hit the quota.                               *)
(***************************************************************************)
FrameSizes == {0} \cup ((MAX_QUEUE_SIZE - MaxFrameBelow)..MAX_QUEUE_SIZE)
FrameQueue(n) ==
    IF n = 0 THEN << >>
    ELSE Append(SubSeq(StoredSaves(n), 1, n - 1),
                newItem(n, "update", UpdateCall("s2").payload, 1))

InitFrame ==
    /\ localStorageDefined = TRUE
    /\ \E n \in FrameSizes :
          /\ localStorage = [EmptyStorage EXCEPT ![buildKey("u1")] =
                                IF n = 0 THEN AbsentDoc ELSE JSONStringify(FrameQueue(n))]
          /\ nextId = n + 1
    /\ memoryFallbackQueue = EmptyMemory
    /\ writeLock = << >>
    /\ calls = << >>
    /\ clock = 1
    /\ runs = [r \in Runs |-> IdleRun]
    /\ events = << >>
    /\ stats = NoStats
    /\ setItemLog = {}
    /\ starts = 0

NextFrame ==
    \/ \E p \in SavePayloads :
          Len(calls) < MaxFrameCalls /\ NonePending /\ EnqueueSaveCalled(p, "u1")
    \/ \E p \in UpdatePayloads :
          Len(calls) < MaxFrameCalls /\ NonePending /\ EnqueueUpdateCalled(p, "u1")
    \/ \E f2 \in StoringFaults : LockedBodyRuns(NoFault, f2)
    \/ LockReleases
    \/ \E c \in DOMAIN calls : CallSettles(c)

SpecFrame == InitFrame /\ [][NextFrame]_vars

(***************************************************************************)
(* SpecBackoff: one owner's queue is replayed by one run at a time, with   *)
(* the defaults or the caller's values for maxAttempts, backoffMs and      *)
(* jitterRatio; a run that was aborted is followed by another, which loads *)
(* the attempts the first one stored.  setItem returns or throws any       *)
(* error.                                                                  *)
(***************************************************************************)
BackoffAttemptOptions == {None, Some(2)}
BackoffMsOptions == {None, Some(100)}
JitterRatioOptions == {None, Some(0)}

NextBackoff ==
    \/ \E m \in BackoffAttemptOptions, b \in BackoffMsOptions, j \in JitterRatioOptions :
          /\ runs[1].pc \in {"idle", "done"}
          /\ starts < MaxBackoffStarts
          /\ ProcessCalledWith(1, "u1", m, b, j, FALSE, NoFault)
    \/ \E f1 \in Faults : \E f2 \in SecondFaults(f1) : ExecuteResolves(1, f1, f2)
    \/ \E f1 \in Faults : ExecuteRejects(1, NetworkError, f1)
    \/ BackoffElapsed(1)
    \/ Abort(1)

SpecBackoff == InitFilled(RejectFills) /\ [][NextBackoff]_vars

(***************************************************************************)
(* SpecCompute: computeBackoffDelay is called directly, as the tests of    *)
(* supabaseRetry do, with Math.random mocked (also to 1).                  *)
(***************************************************************************)
BaseDelays == {-50, 0, 80, 100, 400, 1000}
JitterRatios == {-100, 0, 25, 100}
MockedRandoms == Randoms \cup {100}

Computed(base, attemptIndex, jitterRatio, random) ==
    [type |-> "computed", requestId |-> "",
     n |-> computeBackoffDelay(base, attemptIndex, jitterRatio, random),
     item |-> << >>, message |-> "", meta |-> << base, attemptIndex, jitterRatio, random >>]

\* computeBackoffDelay(base, attemptIndex, jitterRatio) is called and returns
ComputeCalled(base, attemptIndex, jitterRatio, random) ==
    /\ events' = << Computed(base, attemptIndex, jitterRatio, random) >>
    /\ UNCHANGED << localStorageDefined, localStorage, memoryFallbackQueue, writeLock, calls,
                    nextId, clock, runs, stats, setItemLog, starts >>

NextCompute ==
    \E base \in BaseDelays, n \in 0..MaxAttemptIndex, j \in JitterRatios, x \in MockedRandoms :
        ComputeCalled(base, n, j, x)

SpecCompute == Init /\ [][NextCompute]_vars

(***************************************************************************)
(* Properties.                                                             *)
(***************************************************************************)
ScreenIds == {p.id : p \in UpdatePayloads \cup SavePayloads}


UpdatesFor(q, sid) == SelectSeq(q, LAMBDA it : it.kind = "update" /\ it.payload.id = sid)
AtMostOneUpdatePerId(q) == \A sid \in ScreenIds : Len(UpdatesFor(q, sid)) <= 1

\* the durable document of an owner as a reader would hydrate it
DurableQueue(userId) == hydrateAll(localStorage[buildKey(userId)].entries, clock)

C1_Inv ==
    /\ AtMostOneUpdatePerId(Peek("u1"))
    /\ AtMostOneUpdatePerId(DurableQueue("u1"))
    /\ AtMostOneUpdatePerId(memoryFallbackQueue[buildKey("u1")].items)

C1_Step ==
    \A c \in DOMAIN calls :
        (calls[c].op = "update" /\ calls[c].status = "pending" /\ calls'[c].status = "resolved")
        => LET q == Peek(calls[c].userId)'
               mine == UpdatesFor(q, calls[c].payload.id)
           IN  /\ Len(mine) <= 1
               /\ \A k \in DOMAIN mine : /\ mine[k].payload = calls[c].payload
                                         /\ mine[k].id = Get(calls'[c].item).id

\* C1: in every state reached from an empty queue by enqueueSaveOperation,
\* enqueueUpdateOperation and processPendingOps steps of one owner, the owner's queue
\* (as read, as stored durably and as held in the fallback) has at most one update item
\* per target payload.id, and the step in which the promise of enqueueUpdateOperation(p)
\* resolves leaves no update item for p.id other than the created one, carrying payload p
\* (a run may have replayed and removed it already).
C1_OneUpdatePerTarget == [](C1_Inv) /\ [][C1_Step]_vars

\* two updates of one screen have resolved around a replay, and one update item is queued
C1_Witness ==
    /\ starts > 0
    /\ \E c1 \in DOMAIN calls, c2 \in DOMAIN calls :
          /\ c1 < c2
          /\ calls[c1].op = "update" /\ calls[c2].op = "update"
          /\ calls[c1].status = "resolved" /\ calls[c2].status = "resolved"
          /\ calls[c1].payload.id = calls[c2].payload.id
          /\ calls[c1].payload # calls[c2].payload
          /\ Len(UpdatesFor(Peek("u1"), calls[c2].payload.id)) = 1


\* a later-issued update of the same target replaces call c's item
Replaced(c) ==
    /\ calls[c].op = "update"
    /\ \E d \in DOMAIN calls :
          d > c /\ calls[d].op = "update" /\ calls[d].payload.id = calls[c].payload.id

\* the calls whose items the update-replacement rule leaves, in issue order
Surviving == SelectSeq([c \in DOMAIN calls |-> c], LAMBDA c : ~Replaced(c))

AllSettled == writeLock = << >> /\ \A c \in DOMAIN calls : calls[c].status = "resolved"

\* the function of every issued enqueue call has run and returned (so it is once every
\* call has settled)
AllReturned == \A c \in DOMAIN calls : calls[c].fn = "returned"

\* C2: the functions of the enqueue calls of an owner run in the order the calls were
\* issued, each after the previous one has completed; and once all of them have returned,
\* hence once every call has settled (writes succeeding, no replay, below the cap), the
\* persisted queue holds exactly the items of the issued calls that no later update of the
\* same target replaced, each once, in issue order.
C2_IssueOrderKept ==
    /\ \A c \in DOMAIN calls :
          calls[c].fn # "waiting" => \A d \in 1..(c - 1) : calls[d].fn # "waiting"
    /\ (AllReturned /\ setItemLog \subseteq {"ok"} /\ starts = 0 /\ Len(calls) < MAX_QUEUE_SIZE)
       => LET q == Peek("u1")
          IN  /\ Len(q) = Len(Surviving)
              /\ \A k \in 1..Len(q) :
                    /\ q[k].id = Get(calls[Surviving[k]].item).id
                    /\ q[k].kind = calls[Surviving[k]].op
                    /\ q[k].payload = calls[Surviving[k]].payload

\* three calls were issued while earlier ones were still waiting, one update was replaced
C2_Witness ==
    /\ AllSettled /\ setItemLog = {"ok"}
    /\ Len(calls) = MaxLockCalls
    /\ \E c \in DOMAIN calls : calls[c].behind >= 2
    /\ \E c \in DOMAIN calls : Replaced(c)
    /\ Len(Peek("u1")) = MaxLockCalls - 1


Ids(q) == [k \in 1..Len(q) |-> q[k].id]
InSeq(x, q) == \E k \in 1..Len(q) : q[k] = x
\* the position of item id x in the queue the run loaded (0: not loaded)
LoadedPos(r, x) ==
    IF InSeq(x, Ids(runs[r].loaded))
    THEN CHOOSE k \in 1..Len(runs[r].loaded) : runs[r].loaded[k].id = x ELSE 0

\* C3: in a processPendingOps run at most one execute invocation is in flight, the item in
\* flight is the first item of the working queue, the working queue keeps the order of the
\* loaded queue, and no item loaded before the item in flight is still in the working
\* queue.
C3_InOrderOneInFlight ==
    \A r \in Runs :
        LET run == runs[r]
            q == Ids(run.queue)
        IN  /\ Len(run.inflight) <= 1
            /\ (run.pc = "executing") <=> (Len(run.inflight) = 1)
            /\ \A j \in 1..Len(q), k \in 1..Len(q) :
                  j < k => LoadedPos(r, q[j]) < LoadedPos(r, q[k])
            /\ run.inflight # << >> =>
                  /\ q # << >> /\ run.inflight[1] = q[1]
                  /\ \A k \in 1..Len(run.loaded) :
                        k < LoadedPos(r, run.inflight[1]) => ~InSeq(run.loaded[k].id, q)

\* the second loaded item is in flight after the first one was retried and left the queue
C3_Witness ==
    LET run == runs[1]
    IN  /\ run.pc = "executing"
        /\ Len(run.loaded) >= 3
        /\ run.inflight = << run.loaded[2].id >>
        /\ Count(stats.execute, run.loaded[1].id) >= 2
        /\ Len(run.queue) = 2


EventsOf(type) == SelectSeq(events, LAMBDA e : e.type = type)

\* C4: with fresh items, an execute that always rejects, maxAttempts = M >= 1 and no
\* cancellation, a run invokes execute exactly M times per item and onPermanentFailure once
\* per item, with an item whose failures log has min(M, MAX_FAILURE_LOG) entries, and ends
\* with an empty remainder and an empty persisted queue.
C4_RejectedToTheEnd ==
    LET run == runs[1]
        M == run.maxAttempts
        loadedIds == {run.loaded[k].id : k \in 1..Len(run.loaded)}
    IN  /\ \A k \in 1..Len(EventsOf("onPermanentFailure")) :
              LET item == Get(EventsOf("onPermanentFailure")[k].item)
              IN  /\ item.attempts = M
                  /\ Len(Get(item.failures)) = Min(M, MAX_FAILURE_LOG)
                  /\ (M = 2 => Len(Get(item.failures)) = 2)
        /\ \A x \in loadedIds :
              /\ Count(stats.execute, x) <= M
              /\ Count(stats.onPermanentFailure, x) <= 1
        /\ run.pc \notin {"rejected"}
        /\ run.pc = "done" =>
              /\ \A x \in loadedIds :
                    /\ Count(stats.execute, x) = M
                    /\ Count(stats.onPermanentFailure, x) = 1
              /\ run.queue = << >>
              /\ Peek(run.userId) = << >>

\* a run with maxAttempts above the log cap has dropped two items
C4_Witness ==
    LET run == runs[1]
    IN  /\ run.pc = "done"
        /\ run.maxAttempts = MaxRejectAttempts
        /\ Len(run.loaded) = 2
        /\ Len(EventsOf("onPermanentFailure")) = 1
        /\ Len(Get(Get(EventsOf("onPermanentFailure")[1].item).failures)) = MAX_FAILURE_LOG
        /\ Count(stats.execute, run.loaded[2].id) = MaxRejectAttempts


SettledCalls == {c \in DOMAIN calls : calls[c].op # "clear" /\ calls[c].status # "pending"}
ClearedAfter(c) == \E d \in DOMAIN calls : d > c /\ calls[d].op = "clear"
Fallback(userId) == memoryFallbackQueue[buildKey(userId)]

\* C5: while every setItem call throws a QuotaExceededError, every enqueue call resolves
\* with the created item; and as long as no setItem call has succeeded and no clear
\* followed, the item of a resolved enqueueSaveOperation is in the owner's fallback entry
\* and in what readPendingOps returns.
C5_QuotaFallsBackToMemory ==
    /\ setItemLog \subseteq {"QuotaExceededError"} =>
          \A c \in SettledCalls :
              /\ calls[c].status = "resolved"
              /\ IsSome(calls[c].item)
              /\ Get(calls[c].item).kind = calls[c].op
              /\ Get(calls[c].item).payload = calls[c].payload
    /\ "ok" \notin setItemLog =>
          \A c \in SettledCalls :
              (calls[c].op = "save" /\ calls[c].status = "resolved" /\ ~ClearedAfter(c))
              => /\ Fallback(calls[c].userId).present
                 /\ InSeq(Get(calls[c].item), Fallback(calls[c].userId).items)
                 /\ InSeq(Get(calls[c].item), Peek(calls[c].userId))
                 /\ DurableQueue(calls[c].userId) = << >>

\* a save resolved under a full storage, later calls followed, and a read still returns it
C5_Witness ==
    /\ setItemLog = {"QuotaExceededError"}
    /\ Len(calls) = MaxStoreCalls /\ writeLock = << >>
    /\ calls[1].op = "save" /\ calls[1].status = "resolved"
    /\ \A c \in DOMAIN calls : calls[c].op # "clear"
    /\ InSeq(Get(calls[1].item), Peek("u1"))
    /\ Len(Peek("u1")) >= 2

\* C6: when the setItem call of an enqueue throws a value that isStorageFullError does not
\* accept, the function under the lock throws a PersistError whose cause is that value
\* and changes neither the fallback entry nor the durable document, and the promise of
\* the call then rejects with that PersistError and delivers no item.
C6_Step ==
    /\ \A c \in DOMAIN calls, f \in SetItemErrors :
          (/\ calls[c].fn = "waiting" /\ calls'[c].fn # "waiting"
           /\ ~isStorageFullError(f)
           /\ LockedBodyRuns(NoFault, f))
          => /\ calls'[c].fn = "threw"
             /\ calls'[c].cause = f
             /\ calls'[c].item = None
             /\ memoryFallbackQueue' = memoryFallbackQueue
             /\ localStorage' = localStorage
    /\ \A c \in DOMAIN calls :
          (calls[c].fn = "threw" /\ calls[c].status = "pending" /\ calls'[c].status # "pending")
          => /\ calls'[c].status = "rejected"
             /\ calls'[c].cause = calls[c].cause
             /\ calls'[c].item = None

C6_OtherErrorsReject == [][C6_Step]_vars

\* an enqueue was rejected by a plain Error("quota") while a fallback entry existed
C6_Witness ==
    \E c \in DOMAIN calls :
        /\ calls[c].status = "rejected"
        /\ calls[c].cause = PlainQuotaMessage
        /\ Fallback("u1").present
        /\ \A k \in 1..Len(Peek("u1")) : Peek("u1")[k].id # c


\* C7: a processPendingOps run never rejects: whatever setItem throws in the writes the
\* run performs, the run goes on or resolves with its remainder list.
C7_RunNeverRejects == \A r \in Runs : runs[r].pc # "rejected"

\* the step in which run r handles the rejection of execute(item) with error e
RejectionHandled(r, e) ==
    /\ runs[r].pc = "executing"
    /\ (runs'[r].pc # "executing" \/ runs'[r].inflight # runs[r].inflight)
    /\ events' # << >>
    /\ events'[1].type = "publish-failure"
    /\ events'[1].message = errorMessage(e)
    /\ events'[1].requestId = (IF IsSome(e.requestId) THEN Get(e.requestId) ELSE "")

\* C8: when execute(item) rejects with any value (an Error, a string, an Error carrying a
\* requestId), the step that handles it builds the item
\* with attempts + 1, lastError, lastAttemptAt and a failures log ending with the new entry
\* (at most MAX_FAILURE_LOG entries), reports it through onItemFailure, and reports it
\* through onPermanentFailure and removes it exactly when attempts + 1 >= maxAttempts,
\* otherwise stores it at the head of the working queue; the run does not reject.
\* Attempt counts alone decide between the two.
C8_Step ==
    \A r \in Runs, e \in ExecuteErrors :
        RejectionHandled(r, e) =>
            LET item == runs[r].queue[runs[r].i]
                prior == IF IsSome(item.failures) THEN Get(item.failures) ELSE << >>
                entry == [at |-> clock, message |-> e.message, requestId |-> e.requestId]
                reported == EventsOf("onItemFailure")'
                dropped == EventsOf("onPermanentFailure")'
                terminal == item.attempts + 1 >= runs[r].maxAttempts
            IN  /\ runs'[r].pc # "rejected"
                /\ Len(reported) = 1
                /\ LET updated == Get(reported[1].item)
                   IN  /\ updated.id = item.id /\ updated.payload = item.payload
                       /\ updated.attempts = item.attempts + 1
                       /\ updated.lastError = Some(e.message)
                       /\ updated.lastAttemptAt = Some(clock)
                       /\ IsSome(updated.failures)
                       /\ LET log == Get(updated.failures)
                          IN  /\ Len(log) = Min(Len(prior) + 1, MAX_FAILURE_LOG)
                              /\ log[Len(log)] = entry
                              /\ \A k \in 1..(Len(log) - 1) :
                                    log[k] = prior[Len(prior) - (Len(log) - 1) + k]
                       /\ terminal => /\ Len(dropped) = 1 /\ dropped[1].item = Some(updated)
                                      /\ ~InSeq(item.id, Ids(runs'[r].queue))
                       /\ ~terminal => /\ dropped = << >>
                                       /\ runs'[r].queue = [runs[r].queue EXCEPT ![1] = updated]

C8_ExecuteRejectionsAbsorbed == [][C8_Step]_vars


\* an item was dropped after a thrown string and then an Error carrying a requestId
C8_Witness ==
    /\ runs[1].maxAttempts = 2
    /\ EventsOf("onPermanentFailure") # << >>
    /\ LET item == Get(EventsOf("onPermanentFailure")[1].item)
       IN  /\ item.attempts = 2
           /\ item.lastError = Some(TracedError.message)
           /\ IsSome(item.failures) /\ Len(Get(item.failures)) = 2
           /\ Get(item.failures)[1].message = ThrownString.message
           /\ Get(item.failures)[2].requestId = TracedError.requestId
           /\ Get(item.failures)[2].at > Get(item.failures)[1].at


\* the owner's queue as it is stored: the fallback entry, else the durable document
StoredIn(mem, ls, userId) ==
    IF mem[buildKey(userId)].present THEN mem[buildKey(userId)].items
    ELSE hydrateAll(ls[buildKey(userId)].entries, 0)
StoredList(userId) == StoredIn(memoryFallbackQueue, localStorage, userId)
Suffix(q, n) == SubSeq(q, Len(q) - Min(Len(q), n) + 1, Len(q))
QueueTrimEvents == SelectSeq(events, LAMBDA e : e.type = "publish" /\ e.requestId = "queue-trim")

\* (the lists are bound once, as values, by quantifying over singleton sets)
C9_Step ==
    \A c \in DOMAIN calls, f1 \in Faults, f2 \in Faults :
        (/\ calls[c].fn = "waiting" /\ calls'[c].fn = "returned"
         /\ LockedBodyRuns(f1, f2))
        => \A read \in {readPendingOps(Store, calls[c].userId, f1, LocalRef, clock).items} :
           \A after \in {StoredIn(memoryFallbackQueue', localStorage', calls[c].userId)} :
           \A kept \in {IF calls[c].op = "save" THEN read
                        ELSE SelectSeq(read, LAMBDA x :
                               ~(x.kind = "update" /\ x.payload.id = calls[c].payload.id))} :
           \A newest \in {Suffix(Append(kept, Get(calls'[c].item)), MAX_QUEUE_SIZE)} :
               /\ Len(after) <= MAX_QUEUE_SIZE
               /\ Ids(after) = Ids(newest)

C9_Example ==
    (/\ calls # << >> /\ AllSettled
     /\ \A c \in DOMAIN calls : calls[c].op = "save" /\ calls[c].status = "resolved"
     /\ nextId - 1 = MAX_QUEUE_SIZE + 1
     /\ nextId - 1 - Len(calls) <= MAX_QUEUE_SIZE)
    => \A returned \in {Peek("u1")}, stored \in {StoredList("u1")} :
          /\ Ids(returned) = [k \in 1..MAX_QUEUE_SIZE |-> k + 1]
          /\ Ids(stored) = Ids(returned)

\* the function of an enqueue call has run, whether it returned or threw (a call that
\* changes nothing leaves an oversized document of another writer as it was)
C9_AnyCall ==
    \A c \in DOMAIN calls, f1 \in Faults, f2 \in Faults :
        (/\ calls[c].fn = "waiting" /\ calls'[c].fn # "waiting"
         /\ LockedBodyRuns(f1, f2))
        => \A before \in {StoredList(calls[c].userId)} :
           \A after \in {StoredIn(memoryFallbackQueue', localStorage', calls[c].userId)} :
               Len(after) <= MAX_QUEUE_SIZE \/ Ids(after) = Ids(before)

\* the part of C9 about the calls that resolve
C9_ResolvedCallsKeepNewest == [](C9_Example) /\ [][C9_Step]_vars

\* C9: after the function of any enqueue call has run, the stored queue has at most
\* MAX_QUEUE_SIZE items (unless it holds what was stored before the call); when it
\* returned (the call resolves with the item) they are the
\* newest items, in unchanged order, of the list it built from what readPendingOps
\* returned to it and the new item; after MAX_QUEUE_SIZE + 1 saves into an empty queue the
\* stored queue holds the 2nd to the last save, in order.
C9_CapKeepsNewest == [](C9_Example) /\ [][C9_Step /\ C9_AnyCall]_vars

\* 101 saves, every one stored durably: the first is gone, the 101st is the last item
C9_Witness ==
    /\ Len(calls) = 2 /\ AllSettled /\ setItemLog = {"ok"}
    /\ \A c \in DOMAIN calls : calls[c].op = "save" /\ calls[c].status = "resolved"
    /\ nextId = MAX_QUEUE_SIZE + 2
    /\ Len(Peek("u1")) = MAX_QUEUE_SIZE
    /\ Peek("u1")[1].id = 2
    /\ Peek("u1")[MAX_QUEUE_SIZE].id = MAX_QUEUE_SIZE + 1
    /\ QueueTrimEvents # << >>

\* C10: among the events of one operation, every trim (a trimQueue result that dropped
\* items and was stored, in persist or in readPendingOps) has its own queue-trim event
\* carrying the number of items dropped, and there is no other queue-trim event.
C10_OneNotificationPerTrim ==
    /\ Len(QueueTrimEvents) = Len(EventsOf("trimmed"))
    /\ \A k \in 1..Len(QueueTrimEvents) : QueueTrimEvents[k].n = EventsOf("trimmed")[k].n


\* C11: when processPendingOps is called on a non-empty queue with a signal that is already
\* aborted, the call ends at once: execute and the callbacks are not invoked, nothing is
\* published, the returned list is the queue a reader saw before the call, and the durable
\* document and the fallback entry are unchanged.
C11_Step ==
    \A m \in AttemptOptions :
        (Peek("u1") # << >> /\ ProcessCalled(1, "u1", m, TRUE, NoFault))
        => /\ runs'[1].pc = "done"
           /\ runs'[1].queue = Peek("u1")
           /\ stats' = stats
           /\ events' = << >>
           /\ localStorage' = localStorage
           /\ memoryFallbackQueue' = memoryFallbackQueue

C11_PreAbortedRunsNothing == [][C11_Step]_vars

\* a run called with an aborted signal has returned a queue of three items untouched
C11_Witness ==
    /\ runs[1].pc = "done" /\ runs[1].aborted
    /\ Len(runs[1].loaded) = 3
    /\ runs[1].queue = runs[1].loaded
    /\ Peek("u1") = runs[1].loaded
    /\ stats = NoStats


\* the items of the loaded queue that the run has completed: replayed or dropped for good
Completed(r) ==
    {x \in {runs[r].loaded[k].id : k \in 1..Len(runs[r].loaded)} :
        Count(stats.onSuccess, x) + Count(stats.onPermanentFailure, x) > 0}

C12_Step ==
    \A r \in Runs :
        (runs[r].aborted /\ runs[r].pc \in {"executing", "waiting"} /\ runs'[r] # runs[r])
        => /\ stats'.execute = stats.execute
           /\ runs'[r].pc = "done"
           /\ runs'[r].inflight = << >>
           /\ runs[r].pc = "executing" =>
                 LET item == runs[r].queue[runs[r].i]
                 IN  \/ /\ Count(stats'.onSuccess, item.id) = Count(stats.onSuccess, item.id) + 1
                        /\ ~InSeq(item.id, Ids(StoredIn(memoryFallbackQueue', localStorage', "u1")))
                     \/ /\ Count(stats'.onItemFailure, item.id)
                              = Count(stats.onItemFailure, item.id) + 1
                        /\ \A k \in 1..Len(runs'[r].queue) :
                              runs'[r].queue[k].id = item.id
                              => runs'[r].queue[k].attempts = item.attempts + 1

C12_Inv ==
    \A r \in Runs :
        (runs[r].pc = "done" /\ runs[r].aborted)
        => LET q == Ids(runs[r].queue)
           IN  /\ Ids(StoredList(runs[r].userId)) = q
               /\ \A j \in 1..Len(q), k \in 1..Len(q) :
                     j < k => LoadedPos(r, q[j]) < LoadedPos(r, q[k])
               /\ \A k \in 1..Len(runs[r].loaded) :
                     InSeq(runs[r].loaded[k].id, q) <=> runs[r].loaded[k].id \notin Completed(r)

\* C12: once the signal of a run is aborted, the run invokes execute no more: the step that
\* settles an execute in flight still records its outcome (the item is removed and reported
\* through onSuccess, or reported through onItemFailure with attempts + 1) and ends the
\* run, and so does the end of a backoff wait; the run then returns exactly the loaded
\* items it has not completed, in their loaded order, and these are the stored queue.
C12_AbortStopsTheRun == [](C12_Inv) /\ [][C12_Step]_vars

\* the first of three items was replayed while the signal was aborted: two items remain
C12_Witness ==
    /\ runs[1].pc = "done" /\ runs[1].aborted
    /\ Len(runs[1].loaded) = 3
    /\ Ids(runs[1].queue) = << runs[1].loaded[2].id, runs[1].loaded[3].id >>
    /\ EventsOf("onSuccess") # << >>
    /\ Ids(Peek("u1")) = Ids(runs[1].queue)


\* C13: an item whose enqueue call resolved after run 1 had loaded its queue (the calls of
\* SpecDuring run while run 1 is suspended, or before it is called) is not executed by
\* run 1; and unless a later update of the same target replaced it, it is in the queue
\* the next processPendingOps call loads.
C13_EnqueuedDuringRunKept ==
    \A c \in DOMAIN calls :
        (/\ calls[c].status = "resolved"
         /\ runs[1].pc # "idle"
         /\ ~InSeq(Get(calls[c].item).id, Ids(runs[1].loaded)))
        => LET x == Get(calls[c].item).id
           IN  /\ runs[2].pc = "idle" => Count(stats.execute, x) = 0
               /\ (runs[2].pc # "idle" /\ ~Replaced(c)) => InSeq(x, Ids(runs[2].loaded))


\* the list the readPendingOps call of the last handler returned (<< >> when none did)
LastReturned(ev) ==
    LET rs == SelectSeq(ev, LAMBDA e : e.type = "returned")
    IN  IF rs = << >> THEN << >> ELSE rs[Len(rs)].item
\* what the conversion of a legacy entry is to carry
MigratedPayload(p) ==
    LET given == Get(p.payload)
    IN  IF Get(p.kind) = "save"
        THEN [id |-> "", body |-> IF given.body = None THEN "Untitled" ELSE Get(given.body)]
        ELSE [id |-> IF given.id = None THEN "" ELSE Get(given.id),
              body |-> IF given.body = None THEN "" ELSE Get(given.body)]

C14_FirstRead ==
    LET es == localStorage[legacyKey("u1")].entries
    IN  (/\ ~Fallback("u1").present
         /\ localStorage[buildKey("u1")] = AbsentDoc
         /\ localStorage[legacyKey("u1")].type = "array"
         /\ Len(es) >= 1
         /\ \A k \in 1..Len(es) : LegacyConvertible(es[k]) /\ ~LegacyThrows(es[k])
         /\ ReadObserved("u1", NoFault))
        => \A L \in {LastReturned(events')} :
              /\ Len(L) = Len(es)
              /\ \A k \in 1..Len(L) :
                    /\ L[k].kind = Get(es[k].kind)
                    /\ L[k].payload = MigratedPayload(es[k])
                    /\ L[k].id = nextId + k - 1
                    /\ L[k].attempts = 0
              /\ localStorage'[legacyKey("u1")] = AbsentDoc
              /\ localStorage'[buildKey("u1")].type = "array"
              /\ hydrateAll(localStorage'[buildKey("u1")].entries, clock) = L

\* (the items of a migration carry ids this behaviour generated: ids below nextId)
C14_SecondRead ==
    \A f \in ReadOutcomes :
        \A L \in {LastReturned(events)} :
            (/\ L # << >> /\ L[1].id < nextId
             /\ ReadObserved("u1", f))
            => /\ Ids(LastReturned(events')) = Ids(L)
               /\ nextId' = nextId
               /\ localStorage' = localStorage

\* C14: with a legacy key holding N >= 1 convertible entries, no versioned key and a write
\* that succeeds, readPendingOps returns the N converted items in legacy order, leaves
\* them under the versioned key and removes the legacy key; the read that follows returns
\* the same ids in the same order, generates no id and writes nothing.
C14_MigratesOnce == [][C14_FirstRead /\ C14_SecondRead]_vars


\* the entries of a stored array that are objects with an id and a kind
WellFormed(es) == SelectSeq(es, LAMBDA e : e.id # None /\ e.kind # None)

C15_Step ==
    \A f \in ReadOutcomes :
        (~Fallback("u1").present /\ ReadObserved("u1", f))
        => \A v \in {localStorage[buildKey("u1")]}, l \in {localStorage[legacyKey("u1")]} :
           \A L \in {LastReturned(events')} :
              /\ \E k \in 1..Len(events') : events'[k].type = "returned"
              /\ v \in UnreadableDocs => L = << >> /\ localStorage' = localStorage
              /\ (v = AbsentDoc /\ l \in UnreadableDocs) => L = << >> /\ localStorage' = localStorage
              /\ (v = AbsentDoc /\ l.type = "array"
                    /\ \E k \in 1..Len(l.entries) : l.entries[k] = LegacyNoPayload)
                 => L = << >> /\ localStorage' = localStorage
              /\ (v = AbsentDoc /\ l.type = "array" /\ RemoveItemFault(f)) => L = << >>
              /\ (v.type = "array" /\ Len(v.entries) <= MAX_QUEUE_SIZE)
                 => /\ Len(L) = Len(WellFormed(v.entries))
                    /\ \A k \in 1..Len(L) :
                          /\ L[k].id = Get(WellFormed(v.entries)[k].id)
                          /\ L[k].kind = Get(WellFormed(v.entries)[k].kind)
                          /\ L[k].payload = WellFormed(v.entries)[k].payload
                    /\ localStorage' = localStorage

\* C15: every readPendingOps call returns a sequence. Text that is not JSON, JSON that is
\* not an array and a getItem that throws (under the versioned key, or under the legacy
\* key when there is no versioned one) give the empty sequence, and so does a legacy entry
\* whose conversion throws and a migration whose removeItem throws; of a stored array the
\* entries that are objects with an id and a kind are returned, in stored order, and the
\* others are dropped one by one. But for that migration, none of these reads writes to
\* the storage.
C15_ReadNeverThrows == [][C15_Step]_vars

\* the array [null, {kind}, {id, kind, payload}] was read: one item came back
C15_Witness ==
    /\ localStorage[buildKey("u1")] = ArrayDoc(<< NullEntry, KindOnlyEntry, SparseEntry >>)
    /\ Len(LastReturned(events)) = 1
    /\ LastReturned(events)[1].id = Get(SparseEntry.id)
    /\ LastReturned(events)[1].attempts = 0


C16_Step ==
    \A t \in BOOLEAN :
        ClearCalled("u1", t)
        => /\ calls'[Len(calls')].op = "clear" /\ calls'[Len(calls')].status = "resolved"
           /\ ~Fallback("u1").present'
           /\ (~t \/ ~localStorageDefined) => Peek("u1")' = << >>

\* C16: a clearPendingOps call returns, whether removeItem throws or localStorage does
\* not exist, and leaves no fallback entry; when removeItem did not throw, a readPendingOps
\* call that follows returns the empty sequence.
C16_ClearEmptiesTheQueue == [][C16_Step]_vars


\* C17: where localStorage does not exist, the function of every enqueue call that has run
\* has returned the item it created and every settled call has resolved, every
\* clearPendingOps call has returned, every
\* readPendingOps call returns the empty sequence, and a processPendingOps call returns
\* at once with an empty remainder and without invoking execute or a callback; nothing is
\* kept, neither in a storage nor in the fallback.
C17_AbsentStorageIsHarmless ==
    ~localStorageDefined
    => /\ \A c \in DOMAIN calls : calls[c].status # "pending" => calls[c].status = "resolved"
       /\ \A c \in DOMAIN calls :
             calls[c].fn # "waiting"
             => /\ calls[c].fn = "returned"
                /\ calls[c].op # "clear"
                   => /\ IsSome(calls[c].item)
                      /\ Get(calls[c].item).kind = calls[c].op
                      /\ Get(calls[c].item).payload = calls[c].payload
                      /\ Get(calls[c].item).attempts = 0
       /\ \A k \in 1..Len(events) : events[k] = Returned(<< >>)
       /\ Peek("u1") = << >>
       /\ \A r \in Runs : runs[r].pc \in {"idle", "done"} /\ runs[r].queue = << >>
       /\ stats = NoStats
       /\ memoryFallbackQueue = EmptyMemory
       /\ localStorage = EmptyStorage
       /\ setItemLog = {}

\* without a storage a save and an update have resolved, a clear has returned, a read has
\* returned [] and a run has returned
C17_Witness ==
    /\ ~localStorageDefined
    /\ Len(calls) = 3 /\ writeLock = << >>
    /\ \E c \in DOMAIN calls : calls[c].op = "save" /\ IsSome(calls[c].item)
    /\ \E c \in DOMAIN calls : calls[c].op = "update" /\ IsSome(calls[c].item)
    /\ \E c \in DOMAIN calls : calls[c].op = "clear"
    /\ events = << Returned(<< >>) >>
    /\ starts = MaxAbsentStarts /\ runs[1].pc = "done"


\* the failures logs of the owner's queue exactly as it is written: the entries of the
\* durable document, or the items of the fallback entry
WrittenLogs(mem, ls, userId) ==
    IF mem[buildKey(userId)].present
    THEN [i \in 1..Len(mem[buildKey(userId)].items) |-> mem[buildKey(userId)].items[i].failures]
    ELSE [i \in 1..Len(ls[buildKey(userId)].entries) |-> ls[buildKey(userId)].entries[i].failures]
LogsCapped(logs) ==
    \A i \in 1..Len(logs) : IsSome(logs[i]) => Len(Get(logs[i])) <= MAX_FAILURE_LOG
C18_Step ==
    /\ \A e \in {TracedError}, f1 \in StoringFaults :
          ExecuteRejects(1, e, f1)
          => LET item == runs[1].queue[runs[1].i]
                 prior == IF IsSome(item.failures) THEN Get(item.failures) ELSE << >>
                 entry == [at |-> clock, message |-> e.message, requestId |-> e.requestId]
                 kept == StoredList("u1")'
             IN  /\ LogsCapped(WrittenLogs(memoryFallbackQueue, localStorage, "u1")')
                 /\ item.attempts + 1 < runs[1].maxAttempts
                    => /\ kept # << >> /\ kept[1].id = item.id
                       /\ kept[1].attempts = item.attempts + 1
                       /\ kept[1].failures
                            = Some(SliceLast(Append(prior, entry), MAX_FAILURE_LOG))
    /\ ReadObserved("u1", NoFault)
       => \A L \in {LastReturned(events')} :
             /\ LogsCapped([i \in 1..Len(L) |-> L[i].failures])
             /\ \A i \in 1..Len(L) :
                   \A k \in 1..Len(localStorage[buildKey("u1")].entries) :
                      LET e == localStorage[buildKey("u1")].entries[k]
                      IN  (/\ ~Fallback("u1").present /\ IsItemEntry(e) /\ Get(e.id) = L[i].id
                           /\ IsSome(e.failures))
                          => LET valid == SelectSeq(Get(e.failures),
                                                    LAMBDA f : IsSome(f.at) /\ IsSome(f.message))
                                 log == IF IsSome(L[i].failures) THEN Get(L[i].failures)
                                        ELSE << >>
                             IN  valid # << >>
                                 => /\ Len(log) = Min(Len(valid), MAX_FAILURE_LOG)
                                    /\ \A j \in 1..Len(log) :
                                          /\ Some(log[j].at) = valid[Len(valid) - Len(log) + j].at
                                          /\ Some(log[j].message)
                                               = valid[Len(valid) - Len(log) + j].message

\* C18: every write of a run that handles a rejection leaves a queue whose failures logs
\* have at most MAX_FAILURE_LOG entries, the retried item being stored with attempts + 1
\* and with the newest MAX_FAILURE_LOG entries of its former log followed by the new
\* failure; every list readPendingOps returns has logs of at most MAX_FAILURE_LOG entries,
\* the newest valid ones of the stored item; the attempts counter is not capped.
C18_FailureLogCapped == [][C18_Step]_vars

\* an item with 9 attempts is stored with a log of MAX_FAILURE_LOG entries, the newest being
\* the last rejection, and a read has returned it
C18_Witness ==
    /\ runs[1].pc = "waiting"
    /\ \E L \in {LastReturned(events)} :
          /\ L # << >>
          /\ L[1].attempts = MaxLogAttempts - 1
          /\ L[1].attempts > MAX_FAILURE_LOG
          /\ Len(Get(L[1].failures)) = MAX_FAILURE_LOG
          /\ Get(L[1].failures)[MAX_FAILURE_LOG].requestId = TracedError.requestId
          /\ Get(L[1].failures)[MAX_FAILURE_LOG].at = Get(L[1].lastAttemptAt)
    /\ StoredList("u1") = LastReturned(events)


C19_Step ==
    \A f1 \in Faults :
        ReadObserved("u1", f1)
        => \A L \in {LastReturned(events')} :
              /\ Len(L) <= MAX_QUEUE_SIZE
              /\ (QueueTrimEvents' # << >> /\ f1 \in StoringFaults)
                 => /\ Len(L) = MAX_QUEUE_SIZE
                    /\ StoredList("u1")' = L

\* C19: every list readPendingOps returns has at most MAX_QUEUE_SIZE items, and a read
\* that cut the queue returns the MAX_QUEUE_SIZE items it stored.
C19_ReadWithinCap == [][C19_Step]_vars


\* the function of the enqueueUpdateOperation call c runs under the lock and returns
UpdateRuns(c) ==
    /\ calls[c].op = "update"
    /\ calls[c].fn = "waiting" /\ calls'[c].fn = "returned"
    /\ \E f2 \in StoringFaults : LockedBodyRuns(NoFault, f2)
\* what identifies the items of a queue, whether read back or not (a read returns an
\* empty failures log as undefined)
Entries(queue) ==
    [k \in 1..Len(queue) |-> [id |-> queue[k].id, kind |-> queue[k].kind,
                              payload |-> queue[k].payload, attempts |-> queue[k].attempts]]
\* the items of a queue an update of screen `sid` leaves alone
OtherItems(queue, sid) ==
    SelectSeq(queue, LAMBDA item : item.kind # "update" \/ item.payload.id # sid)
PositionsOf(queue, sid) ==
    {k \in 1..Len(queue) : queue[k].kind = "update" /\ queue[k].payload.id = sid}
\* two back-to-back updates of one screen: one item for it, the second call's, in place
BackToBack(c, before, after) ==
    (/\ c > 1 /\ calls[c - 1].op = "update" /\ calls[c - 1].fn = "returned"
     /\ calls[c - 1].payload.id = calls[c].payload.id)
    => /\ PositionsOf(after, calls[c].payload.id) = PositionsOf(before, calls[c].payload.id)
       /\ \A k \in PositionsOf(after, calls[c].payload.id) :
             after[k].payload = calls[c].payload
       /\ Cardinality(PositionsOf(after, calls[c].payload.id)) = 1

\* C20 as stated: every item the filter leaves alone stays, whatever the size of the queue
C20_EveryOtherItemStays ==
    [][\A c \in DOMAIN calls :
          UpdateRuns(c)
          => \A before \in {Peek("u1")} : \A after \in {StoredList("u1")'} :
                Entries(after) = Entries(Append(OtherItems(before, calls[c].payload.id),
                                                Get(calls'[c].item)))]_vars

C20_Step ==
    \A c \in DOMAIN calls :
        UpdateRuns(c)
        => \A before \in {Peek("u1")} : \A after \in {StoredList("u1")'} :
              LET new == Get(calls'[c].item)
                  rest == OtherItems(before, calls[c].payload.id)
              IN  /\ new.kind = "update" /\ new.payload = calls[c].payload
                  /\ new.attempts = 0
                  /\ ~InSeq(new.id, Ids(before))
                  /\ Entries(after) = Entries(Suffix(Append(rest, new), MAX_QUEUE_SIZE))
                  /\ Len(rest) < MAX_QUEUE_SIZE => Entries(after) = Entries(Append(rest, new))
                  /\ BackToBack(c, before, after)

\* C20: an enqueueUpdateOperation call whose function returns leaves the queue made of the items
\* that are not updates of the same screen, in their order, followed by the new item
\* (attempts 0, the call's payload), cut to its newest MAX_QUEUE_SIZE items: nothing else
\* is removed while fewer than MAX_QUEUE_SIZE items remain, and the oldest item is evicted
\* otherwise; after two back-to-back updates of one screen the queue holds one item for
\* it, with the second payload, where the first one was.
C20_UpdateFrame == [][C20_Step]_vars

\* a full queue of saves and one update of s2 has received two updates of s1: the oldest
\* save was evicted, the update of s2 and one update of s1, the second, follow the saves
C20_Witness ==
    /\ Len(calls) = 2 /\ writeLock = << >>
    /\ \A c \in 1..2 : calls[c].op = "update" /\ calls[c].status = "resolved"
    /\ calls[1].payload.id = "s1" /\ calls[2].payload.id = "s1"
    /\ calls[2].payload # calls[1].payload
    /\ \E L \in {StoredList("u1")} :
          /\ Len(L) = MAX_QUEUE_SIZE
          /\ L[1].id = 2
          /\ L[MAX_QUEUE_SIZE - 1].id = MAX_QUEUE_SIZE
          /\ L[MAX_QUEUE_SIZE - 1].payload.id = "s2"
          /\ L[MAX_QUEUE_SIZE].id = Get(calls[2].item).id
          /\ L[MAX_QUEUE_SIZE].payload = calls[2].payload
          /\ \A k \in 1..(MAX_QUEUE_SIZE - 2) : L[k].kind = "save"


\* the calls of computeBackoffDelay observed: arguments and result
ComputedDelays == {events[k] : k \in {j \in 1..Len(events) : events[j].type = "computed"}}

\* C21 as stated: with a jitter ratio of 0 the result is min(base * 2^n, MAX_DELAY) for
\* every base
C21_ExponentialForEveryBase ==
    \A e \in ComputedDelays :
        e.meta[3] = 0 => e.n = Min(e.meta[1] * 2 ^ e.meta[2], MAX_DELAY)

\* C21: computeBackoffDelay(base, n, 0) is min(base * 2^n, MAX_DELAY) for a base of 0 or
\* more (100 for (100, 0, 0), 400 for (100, 2, 0)); for every base, jitter ratio and random
\* draw the result is at least 0 and at most MAX_DELAY.
C21_DelayWithinBounds ==
    \A e \in ComputedDelays :
        /\ 0 <= e.n /\ e.n <= MAX_DELAY
        /\ (e.meta[3] = 0 /\ e.meta[1] >= 0) => e.n = Min(e.meta[1] * 2 ^ e.meta[2], MAX_DELAY)
        /\ (e.meta[1] = 100 /\ e.meta[2] = 0 /\ e.meta[3] = 0) => e.n = 100
        /\ (e.meta[1] = 100 /\ e.meta[2] = 2 /\ e.meta[3] = 0) => e.n = 400

\* computeBackoffDelay(1000, 10, 0.25) has returned MAX_DELAY with Math.random() at 1
C21_Witness ==
    \E e \in ComputedDelays : e.meta = << 1000, 10, 25, 100 >> /\ e.n = MAX_DELAY


\* the positions of the events of one type among the events of the last handler
PositionsOfType(ev, type) == {k \in 1..Len(ev) : ev[k].type = type}
C22_Step ==
    /\ \A e \in ExecuteErrors, f1 \in Faults :
          ExecuteRejects(1, e, f1)
          => /\ Cardinality(PositionsOfType(events', "publish-failure")) = 1
             /\ \A k \in PositionsOfType(events', "publish-failure") :
                   /\ events'[k].item = Some(runs[1].queue[runs[1].i])
                   /\ events'[k].n = runs[1].queue[runs[1].i].attempts + 1
                   /\ \A j \in PositionsOfType(events', "onItemFailure") : k < j
    /\ \A f1 \in Faults, f2 \in Faults :
          ExecuteResolves(1, f1, f2) => PositionsOfType(events', "publish-failure") = {}

\* C22: the step that handles a rejected execute publishes exactly one failure event, for
\* the item executed and with its new attempt count, before it calls onItemFailure; the
\* step that follows a resolved execute publishes no failure event.
C22_OneFailureEventPerRejection == [][C22_Step]_vars


\* what is fixed when an item is enqueued
Identity(item) ==
    [id |-> item.id, kind |-> item.kind, payload |-> item.payload, createdAt |-> item.createdAt]
CallbackTypes == {"execute", "onSuccess", "onItemFailure", "onPermanentFailure"}
\* the versions of items a run hands out: its working array (persisted after every settled
\* execute, returned at the end), the stored queue, the arguments of the callbacks
Versions(r) ==
    {runs[r].queue[k] : k \in 1..Len(runs[r].queue)}
    \cup {StoredList(runs[r].userId)[k] : k \in 1..Len(StoredList(runs[r].userId))}
    \cup {Get(events[k].item) : k \in {j \in 1..Len(events) : events[j].type \in CallbackTypes}}

\* C23: every version of an item that a run keeps in its working array, has stored, or has
\* passed to execute or to a callback is a version of an item the run loaded, with the id,
\* kind, payload and createdAt the item was loaded with.
C23_IdentityFixed ==
    \A r \in Runs :
        runs[r].pc # "idle"
        => \A v \in Versions(r) :
              \E k \in 1..Len(runs[r].loaded) : Identity(v) = Identity(runs[r].loaded[k])

\* an update failed after the clock moved on: it is stored with one attempt, its lastError
\* and a later lastAttemptAt, and was reported so, under the identity it was loaded with
C23_Witness ==
    /\ runs[1].pc = "waiting"
    /\ \E L \in {StoredList("u1")} :
          /\ Len(L) = 3 /\ L[1].kind = "update" /\ L[1].attempts = 1
          /\ L[1].lastError = Some(NetworkError.message)
          /\ Get(L[1].lastAttemptAt) > L[1].createdAt
          /\ Identity(L[1]) = Identity(runs[1].loaded[1])
          /\ L[1] # runs[1].loaded[1]
          /\ \E k \in 1..Len(events) :
                events[k].type = "onItemFailure" /\ events[k].item = Some(L[1])


\* the step of run 1 that handles a rejection of execute which leaves attempts to spare
RetryableFailure ==
    /\ runs[1].pc = "executing"
    /\ runs[1].queue[runs[1].i].attempts + 1 < runs[1].maxAttempts
    /\ \E f1 \in Faults : ExecuteRejects(1, NetworkError, f1)
C24_Step ==
    /\ RetryableFailure
       => LET i == runs[1].i
              item == runs[1].queue[i]
          IN  \A shown \in {Peek("u1")'} :
                /\ Len(shown) = Len(runs[1].queue)
                /\ Identity(shown[i]) = Identity(item)
                /\ shown[i].attempts = item.attempts + 1
                /\ shown[i].lastError = Some(NetworkError.message)
                /\ shown[i].lastAttemptAt = Some(clock)
                /\ \A k \in 1..Len(shown) : k # i => shown[k] = runs[1].queue[k]
                /\ Cardinality(PositionsOfType(events', "setItem")) = 1
                /\ Cardinality(PositionsOfType(events', "onItemFailure")) = 1
                /\ \A p \in PositionsOfType(events', "setItem") :
                      \A q \in PositionsOfType(events', "onItemFailure") :
                         /\ p < q
                         /\ events'[q].item = Some(shown[i])
                         /\ Len(events'[q].meta) = 1
                /\ PositionsOfType(events', "execute") = {}
                /\ runs'[1].pc = IF runs[1].aborted THEN "done" ELSE "waiting"
                /\ runs'[1].i = i
    /\ (BackoffElapsed(1) /\ ~runs[1].aborted)
       => /\ runs'[1].pc = "executing"
          /\ Len(events') = 1 /\ events'[1].type = "execute"
          /\ events'[1].item = Some(runs[1].queue[runs[1].i])
          /\ runs[1].queue[runs[1].i].attempts >= 1
          /\ IsSome(runs[1].queue[runs[1].i].lastError)
          /\ Identity(Peek("u1")[runs[1].i]) = Identity(runs[1].queue[runs[1].i])
          /\ Peek("u1")[runs[1].i].attempts = runs[1].queue[runs[1].i].attempts

\* C24: the step that handles a rejection leaving attempts to spare stores the queue once,
\* with the item at its position carrying attempts + 1, the error as lastError and the time
\* as lastAttemptAt and every other item as it was, then calls onItemFailure once with that
\* item and a delay, invokes no execute, and leaves the run waiting (or ended, if aborted);
\* when the wait is over the run invokes execute on the item at that position, the one
\* that failed, as it is stored.
C24_RetryWrittenBackBeforeWait == [][C24_Step]_vars

\* the first item of two failed once, is stored so, and is being executed again
C24_Witness ==
    /\ runs[1].pc = "executing"
    /\ Len(runs[1].queue) = 2
    /\ runs[1].queue[1].attempts = 1
    /\ Count(stats.execute, runs[1].queue[1].id) = 2
    /\ Count(stats.execute, runs[1].queue[2].id) = 0
    /\ Peek("u1")[1].attempts = 1
    /\ events # << >> /\ events[1].type = "execute"


\* the step of run 1 that handles the rejection which uses up the item's attempts
TerminalFailure ==
    /\ runs[1].pc = "executing"
    /\ runs[1].queue[runs[1].i].attempts + 1 >= runs[1].maxAttempts
    /\ \E f1 \in Faults : ExecuteRejects(1, NetworkError, f1)
C25_Step ==
    TerminalFailure
    => LET i == runs[1].i
           item == runs[1].queue[i]
           rest == SubSeq(runs[1].queue, 1, i - 1) \o SubSeq(runs[1].queue, i + 1, Len(runs[1].queue))
           stored == PositionsOfType(events', "setItem")
           failed == PositionsOfType(events', "onItemFailure")
           dropped == PositionsOfType(events', "onPermanentFailure")
           executed == PositionsOfType(events', "execute")
       IN  /\ Peek("u1")' = rest
           /\ runs'[1].queue = rest
           /\ Cardinality(stored) = 1 /\ Cardinality(failed) = 1 /\ Cardinality(dropped) = 1
           /\ \A p \in stored : \A q \in failed : \A t \in dropped :
                 /\ p < q /\ q < t
                 /\ events'[p].n = Len(rest)
                 /\ events'[q].meta = << >>
                 /\ events'[q].item = events'[t].item
                 /\ Identity(Get(events'[t].item)) = Identity(item)
                 /\ Get(events'[t].item).attempts = item.attempts + 1
                 /\ Get(events'[t].item).lastError = Some(NetworkError.message)
                 /\ \A x \in executed : t < x
           /\ runs'[1].pc # "waiting"
           /\ (rest # << >> /\ ~runs[1].aborted)
              => /\ runs'[1].pc = "executing"
                 /\ Cardinality(executed) = 1
                 /\ \A x \in executed : events'[x].item = Some(rest[i])
           /\ (rest = << >> \/ runs[1].aborted) => runs'[1].pc = "done" /\ executed = {}

\* C25: the step that handles the rejection bringing attempts to maxAttempts or more
\* removes the item from the working array, stores the shortened queue once, then calls
\* onItemFailure once without a delay and then onPermanentFailure once, both with the item
\* carrying the final attempts and lastError, and then, without waiting, invokes execute
\* on the next item (or ends the run if none is left or the signal is aborted).
C25_TerminalDropThenNext == [][C25_Step]_vars

\* the first of two items was dropped after its second rejection and the second is being
\* executed in the same step
C25_Witness ==
    /\ runs[1].pc = "executing" /\ runs[1].maxAttempts = 2
    /\ Len(runs[1].loaded) = 2 /\ Len(runs[1].queue) = 1
    /\ runs[1].loaded[1].attempts = 0
    /\ Count(stats.onPermanentFailure, runs[1].loaded[1].id) = 1
    /\ Count(stats.onItemFailure, runs[1].loaded[1].id) = 2
    /\ PositionsOfType(events, "onPermanentFailure") # {}
    /\ PositionsOfType(events, "execute") # {}
    /\ Peek("u1") = runs[1].queue


C26_Step ==
    \A f1 \in Faults, f2 \in Faults :
        ExecuteResolves(1, f1, f2)
        => LET i == runs[1].i
               item == runs[1].queue[i]
               rest == SubSeq(runs[1].queue, 1, i - 1)
                       \o SubSeq(runs[1].queue, i + 1, Len(runs[1].queue))
               stored == PositionsOfType(events', "setItem")
               succeeded == PositionsOfType(events', "onSuccess")
           IN  /\ runs'[1].queue = rest
               /\ Cardinality(succeeded) = 1
               /\ stats'.onSuccess = Inc(stats.onSuccess, item.id)
               /\ \A q \in succeeded :
                     /\ events'[q].item = Some(item)
                     /\ \E p \in stored : p < q /\ events'[p].n = Len(rest)
                     /\ \A x \in PositionsOfType(events', "execute") : q < x
               /\ Count(stats'.onItemFailure, item.id) = Count(stats.onItemFailure, item.id)

\* C26: the step that follows a resolved execute removes the item from the working array,
\* stores the shortened queue, then calls onSuccess once with the item, and only then
\* invokes execute on the next item; the item is not reported as failed.
C26_SuccessRemovedThenReported == [][C26_Step]_vars


\* the delay a retryable failure of an item with `prior` failures is to be followed by, up
\* to the jitter
DelayFor(prior, delayMs) ==
    \A exponential \in {Min(runs[1].backoffMs * 2 ^ prior, MAX_DELAY)} :
        /\ exponential <= delayMs /\ delayMs <= MAX_DELAY
        /\ runs[1].jitterRatio = 0 => delayMs = exponential
        /\ 100 * delayMs <= (100 + runs[1].jitterRatio) * exponential
\* the attempts the item had when run 1 loaded it
AttemptsAtLoad(id) == runs[1].loaded[LoadedPos(1, id)].attempts

\* C27 as stated: the first retry of an item in a run is delayed as for attemptIndex 0, and
\* each further retry in that run as for an attemptIndex one higher
C27_FirstRetryOfRunAtBase ==
    [][RetryableFailure
       => \A q \in PositionsOfType(events', "onItemFailure") :
             LET item == runs[1].queue[runs[1].i]
             IN  DelayFor(item.attempts - AttemptsAtLoad(item.id), events'[q].meta[1])]_vars

C27_Step ==
    RetryableFailure
    => /\ runs'[1].pc # "rejected" => PositionsOfType(events', "onItemFailure") # {}
       /\ \A q \in PositionsOfType(events', "onItemFailure") :
             LET item == runs[1].queue[runs[1].i]
             IN  /\ DelayFor(item.attempts, events'[q].meta[1])
                 /\ item.attempts = 0 => events'[q].meta[1] >= runs[1].backoffMs
                 /\ events'[q].n = item.attempts + 1

\* C27: the delay passed to onItemFailure and waited for after a retryable failure is
\* computed with attemptIndex = the attempts the item had before this failure: the base
\* delay (index 0) for an item that never failed, and an index one higher with every
\* further failure, also when the earlier failures were recorded by an earlier run; a
\* delay is passed whenever the step leaves the run going.
C27_DelayIndexIsPriorAttempts == [][C27_Step]_vars

\* a second run has loaded an item that failed once and retries it with the default base
\* delay doubled
C27_Witness ==
    /\ starts = 2 /\ runs[1].pc = "waiting"
    /\ runs[1].backoffMs = DefaultBackoffMs /\ runs[1].jitterRatio = 0
    /\ runs[1].loaded[1].attempts = 1
    /\ runs[1].queue[1].attempts = 2
    /\ \E q \in PositionsOfType(events, "onItemFailure") :
          events[q].meta = << 2 * DefaultBackoffMs >>


\* the positions of `ev` at which execute or a failure callback is handed the item `id`
HandedAgain(ev, id) ==
    {q \in 1..Len(ev) :
        /\ ev[q].type \in {"execute", "onItemFailure", "onPermanentFailure"}
        /\ ev[q].item # << >>
        /\ ev[q].item[1].id = id}

C28_Step ==
    \A f1 \in Faults, f2 \in Faults :
        ExecuteResolves(1, f1, f2)
        => LET i == runs[1].i
               item == runs[1].queue[i]
               rest == SubSeq(runs[1].queue, 1, i - 1)
                       \o SubSeq(runs[1].queue, i + 1, Len(runs[1].queue))
           IN  /\ HandedAgain(events', item.id) = {}
               /\ Entries(runs'[1].queue) = Entries(rest)

\* C28: in the step that follows a resolved execute(item), the item is not handed to
\* execute, onItemFailure or onPermanentFailure, and the working array is the array before
\* the step without that item: every other item is still there, unchanged; also when the
\* write of the shortened queue throws.
C28_ResolvedItemIsFinished == [][C28_Step]_vars


\* the ids of the items the owner's stored queue holds
StoredIds == {Peek("u1")[k].id : k \in DOMAIN Peek("u1")}
\* C29: of two runs for the same owner that overlap in time, at most one receives a
\* resolved execute for an item and at most one delivers onSuccess or onPermanentFailure
\* for it, and no write of a run puts back into the stored queue an item that was no longer
\* in it.
C29_Step ==
    /\ \A id \in DOMAIN stats'.onSuccess \cup DOMAIN stats'.onPermanentFailure :
          Count(stats'.onSuccess, id) + Count(stats'.onPermanentFailure, id) <= 1
    /\ StoredIds' \subseteq StoredIds

C29_OverlappingRunsShareNothing == [][C29_Step]_vars


\* the number of execute invocations the run may spend on a loaded item
ExecuteBudget(item) == Max(1, runs[1].maxAttempts - item.attempts)
Delivered(id) == Count(stats.onSuccess, id) + Count(stats.onPermanentFailure, id)

C30_Inv ==
    /\ \A k \in DOMAIN runs[1].loaded :
          /\ Count(stats.execute, runs[1].loaded[k].id) <= ExecuteBudget(runs[1].loaded[k])
          /\ Delivered(runs[1].loaded[k].id) <= 1
    /\ runs[1].pc = "done"
       => /\ runs[1].queue = << >>
          /\ \A k \in DOMAIN runs[1].loaded : Delivered(runs[1].loaded[k].id) = 1

\* C30: a run that is not cancelled and whose execute calls all settle returns; it invokes
\* execute on a loaded item at most max(1, maxAttempts - attempts at load) times, and when
\* it returns it has delivered exactly one of onSuccess and onPermanentFailure for every
\* loaded item and the list it returns is empty.
C30_RunCompletesEveryItem ==
    /\ [] C30_Inv
    /\ (runs[1].pc # "idle") ~> (runs[1].pc = "done")


\* C31: once clearPendingOps(owner) has returned while a run for the owner was suspended
\* in execute or in a backoff wait, and no enqueue followed, the owner's queue reads as
\* empty: the run writes back none of the items queued before the clear.
C31_ClearDuringReplayIsFinal ==
    (\E c \in DOMAIN calls : calls[c].op = "clear") => Peek("u1") = << >>


\* the ids a new session, whose fallback is empty, reads from the owner's durable document
DurableIds == {DurableQueue("u1")[k].id : k \in DOMAIN DurableQueue("u1")}
\* the run's step with the given outcome of its setItem call
RunSettles(f1) ==
    \/ ExecuteResolves(1, f1, NoFault)
    \/ \E e \in ExecuteErrors : ExecuteRejects(1, e, f1)
\* the ids the step of the run takes out of the working array
RemovedIds ==
    {runs[1].queue[k].id : k \in DOMAIN runs[1].queue}
    \ {runs'[1].queue[k].id : k \in DOMAIN runs'[1].queue}

\* C32 as stated: an item the run removes is not in the durable document after the step,
\* also when the write of the step hits the quota
C32_RemovedNeverSeenAgain ==
    [][\A f1 \in StoringFaults :
          RunSettles(f1) => RemovedIds \cap DurableIds' = {}]_vars

C32_Step ==
    /\ RunSettles(NoFault)
       => /\ RemovedIds \cap DurableIds' = {}
          /\ ~Fallback("u1").present'
    /\ RunSettles(QuotaExceededError)
       => /\ localStorage' = localStorage
          /\ Fallback("u1").present'
          /\ RemovedIds \cap {Peek("u1")'[k].id : k \in DOMAIN Peek("u1")'} = {}

\* C32: an item the run removes (on success or as a terminal failure) is absent from the
\* durable document right after the step when the setItem call of the step succeeded; when
\* it hit the quota the durable document is left as it was and the removal is recorded in
\* the in-memory fallback only, where the same session no longer reads the item.
C32_RemovalDurableWhenWritten == [][C32_Step]_vars

\* the run has removed its first item while the quota was hit: the durable document still
\* holds it and the same session no longer reads it
C32_Witness ==
    /\ runs[1].pc \in {"executing", "done"} /\ Len(runs[1].loaded) >= 1
    /\ Count(stats.onSuccess, runs[1].loaded[1].id) = 1
    /\ Fallback("u1").present
    /\ runs[1].loaded[1].id \in DurableIds
    /\ \A k \in DOMAIN Peek("u1") : Peek("u1")[k].id # runs[1].loaded[1].id


\* the last setItem call of a handler's events, << >> when it made none
LastWrite(ev) ==
    IF PositionsOfType(ev, "setItem") = {} THEN << >>
    ELSE << ev[CHOOSE q \in PositionsOfType(ev, "setItem") :
                  \A p \in PositionsOfType(ev, "setItem") : p <= q] >>
Cleared == \E c \in DOMAIN calls' : c \notin DOMAIN calls /\ calls'[c].op = "clear"

\* what every step leaves of the entry, whatever the outcome of its writes
C33_Always ==
    /\ Fallback("u1").present' => Peek("u1")' = Fallback("u1").items'
    /\ Cleared => ~Fallback("u1").present'
    /\ LastWrite(events') = << >> /\ Fallback("u1").present'
       => Fallback("u1").present /\ Fallback("u1").items' = Fallback("u1").items
    /\ \A w \in {LastWrite(events')[k] : k \in DOMAIN LastWrite(events')} :
          /\ SetItemOutcome(w.meta[1]) = "ok" => ~Fallback("u1").present'
          /\ SetItemOutcome(w.meta[1]) = "quota"
             => Fallback("u1").present' /\ Fallback("u1").items' = w.item
          /\ ~Fallback("u1").present /\ Fallback("u1").present'
             => SetItemOutcome(w.meta[1]) = "quota"

\* C33 as stated: in addition, while the entry exists it is the list most recently passed
\* to a write for the owner
C33_EntryIsLastListWritten ==
    [][/\ C33_Always
       /\ \A w \in {LastWrite(events')[k] : k \in DOMAIN LastWrite(events')} :
             Fallback("u1").present' => Fallback("u1").items' = w.item]_vars

C33_Step ==
    /\ C33_Always
    /\ \A w \in {LastWrite(events')[k] : k \in DOMAIN LastWrite(events')} :
          SetItemOutcome(w.meta[1]) = "error"
          => /\ Fallback("u1").present' = Fallback("u1").present
             /\ Fallback("u1").present'
                => Fallback("u1").items' \in {Fallback("u1").items, w.item}

\* C33: a fallback entry comes into being only by a write that hit the quota and then is
\* the trimmed list of that write; a write that succeeds durably and clearPendingOps remove
\* it; a write that throws another error neither creates nor removes it nor replaces it
\* (a run whose working array is the entry changes it in place before such a write); a
\* handler that writes nothing leaves it alone; and while it exists readPendingOps
\* returns its items.
C33_EntryFollowsQuotaWrites == [][C33_Step]_vars

\* an enqueue call was rejected while the entry of an earlier quota failure exists: the
\* entry still holds the earlier list
C33_Witness ==
    /\ Fallback("u1").present
    /\ \E c \in DOMAIN calls : calls[c].op = "save" /\ calls[c].status = "rejected"
    /\ LastWrite(events) # << >>
    /\ SetItemOutcome(LastWrite(events)[1].meta[1]) = "error"
    /\ LastWrite(events)[1].item # Fallback("u1").items


\* what a queue holds, whatever ids and times its items were given
Contents(queue) == [k \in DOMAIN queue |-> << queue[k].kind, queue[k].payload >>]

C34_Step ==
    \A c \in DOMAIN calls :
        (calls[c].fn = "waiting" /\ calls'[c].fn = "threw")
        => /\ localStorage'[buildKey("u1")] = localStorage[buildKey("u1")]
           /\ Fallback("u1").present' = Fallback("u1").present
           /\ Fallback("u1").items' = Fallback("u1").items
           /\ Contents(Peek("u1")') = Contents(Peek("u1"))

\* C34: the step in which the function of an enqueue call throws its PersistError (the
\* call then rejects) leaves the durable value under the owner's key and the owner's
\* fallback entry as they were, and readPendingOps returns after it what it returned
\* before it: the rejected item is not in the queue.
C34_RejectedEnqueueChangesNothing == [][C34_Step]_vars


C35_Inv ==
    \A c \in DOMAIN calls :
        /\ calls[c].fn # "waiting" => \A d \in 1..(c - 1) : calls[d].fn # "waiting"
        /\ calls[c].status # "pending"
           => /\ \A d \in 1..(c - 1) : calls[d].status # "pending"
              /\ c \notin {writeLock[k] : k \in DOMAIN writeLock}

\* C35: every issued enqueue call eventually settles, also when an earlier call rejected
\* with PersistError: again and again no issued call is pending; the functions run and the
\* calls settle in issue order, and a settled call, resolved or rejected, no longer holds
\* the lock.
C35_LockAlwaysReleased ==
    /\ [] C35_Inv
    /\ []<>(\A c \in DOMAIN calls : calls[c].status # "pending")

\* the first call rejected with PersistError and the two calls issued after it resolved
C35_Witness ==
    /\ Len(calls) = 3 /\ writeLock = << >>
    /\ calls[1].status = "rejected"
    /\ calls[2].status = "resolved" /\ calls[3].status = "resolved"

\* C36: with no other writer and every durable write succeeding, whenever a run is
\* suspended (awaiting execute or a backoff wait) readPendingOps(owner) returns the run's
\* working array: each removal and each attempt update was stored before the run suspended
C36_StoredEqualsWorkingList == Suspended(1) => Peek("u1") = runs[1].queue

\* the run waits for a backoff after an attempt update, having removed an item before
C36_Witness ==
    /\ runs[1].pc = "waiting"
    /\ Len(runs[1].queue) < Len(runs[1].loaded)
    /\ runs[1].queue[runs[1].i].attempts > 0
    /\ Peek("u1") = runs[1].queue

\* C37: a step of an enqueue, process, read or clear operation called for owner a leaves
\* what readPendingOps returns for every other owner b as it was
C37_Step ==
    \A a \in OwnerIds :
        OwnerActs(a) => \A b \in OwnerIds \ {a} : Peek(b)' = Peek(b)
C37_QueuesIsolatedPerOwner == [][C37_Step]_vars

\* the attempts of the stored item `id`
StoredAttempts(id) ==
    LET q == Peek("u1") IN q[CHOOSE k \in DOMAIN q : q[k].id = id].attempts
\* the step is the rejection of execute(item) for the item `id`
RejectedFor(id) ==
    \E r \in Runs :
        /\ runs[r].pc = "executing"
        /\ runs[r].queue[runs[r].i].id = id
        /\ \E e \in ExecuteErrors, f1 \in Faults : ExecuteRejects(r, e, f1)
\* the items of the working array of run r that failed in that run: they have more
\* attempts than they were loaded with
FailedInRun(r) ==
    {k \in DOMAIN runs[r].queue :
        \E j \in DOMAIN runs[r].loaded :
            /\ runs[r].loaded[j].id = runs[r].queue[k].id
            /\ runs[r].queue[k].attempts > runs[r].loaded[j].attempts}
C38_Step ==
    /\ \A id \in StoredIds \cap StoredIds' :
          StoredAttempts(id)' = StoredAttempts(id) + (IF RejectedFor(id) THEN 1 ELSE 0)
    /\ \A r \in Runs :
          runs'[r].pc \in {"done", "rejected"}
          => \A k \in FailedInRun(r)' : runs'[r].queue[k].attempts < runs'[r].maxAttempts

\* C38: in every step, the attempts of an item that is in the stored queue before and
\* after it grow by 1 if the step is a rejection of execute for that item and stay as they
\* are otherwise, within a run and from one run to the next; and when a run has ended,
\* every item of its working array that failed in it has attempts < maxAttempts.
C38_AttemptsCountRejections == [][C38_Step]_vars

=========================================================================
